---- MODULE Spec2Model ----
(***************************************************************************)
(* Lumina3D software rendering pipeline: the Rasterizer (frame buffer,     *)
(* depth buffer, line / circle / triangle drawing), the Transform helpers  *)
(* (viewport mapping, Cohen-Sutherland line clipping, matrix stack,        *)
(* rotation matrices) and the Shaders (Blinn-Phong shading).               *)
(*                                                                         *)
(* C++ float values are IEEE 754 binary32 values and every float          *)
(* operation rounds as the hardware does, so a truncation of a computed    *)
(* float to an integer gives what the program gives.                       *)
(***************************************************************************)
EXTENDS Integers, Sequences, FiniteSets, TLC

VARIABLES frameBuffer, depthBuffer, hist, clip, call, transform

vars == <<frameBuffer, depthBuffer, hist, clip, call, transform>>

(***************************************************************************)
(* Bounds of the model.                                                    *)
(***************************************************************************)
\* Rasterizer(width, height): the constructor's arguments
width == 4
height == 4
\* number of Rasterizer calls after construction
MaxOps == 2

(***************************************************************************)
(* float: IEEE 754 binary32 with round-to-nearest-even.  A finite value is *)
(* (-1)^s * m * 2^e with m = 0 or 2^23 <= m < 2^24; k tells finite values  *)
(* from the infinities and NaN.  Every operation rounds its exact result   *)
(* once, as the C++ operators on float do.  The exponent range is not      *)
(* bounded (no overflow to infinity, no subnormals).                       *)
(***************************************************************************)
Abs(i) == IF i < 0 THEN -i ELSE i

Fin(s, m, e) == [k |-> "fin", s |-> s, m |-> m, e |-> e]

Zero(s) == Fin(s, 0, 0)

Inf(s) == [k |-> "inf", s |-> s, m |-> 0, e |-> 0]

NaN == [k |-> "nan", s |-> 0, m |-> 0, e |-> 0]

IsNaN(a) == a.k = "nan"

IsFinite(a) == a.k = "fin"

IsZero(a) == a.k = "fin" /\ a.m = 0

\* the number of bits of M, for 1 <= M < 2^31
BitLen(M) == CHOOSE n \in 1 .. 31 : M \div 2^(n - 1) = 1

\* s = 1 negates M
Signed(s, M) == IF s = 1 THEN -M ELSE M

\* rounding of mantissa q whose dropped bits are low, half being the value
\* of the first dropped bit: up when low is above half, or equal to half
\* with q odd or more bits below (sticky)
RoundBits(s, q, low, half, e, sticky) ==
    IF low > half \/ (low = half /\ (sticky \/ q % 2 = 1))
    THEN (IF q + 1 = 2^24 THEN Fin(s, 2^23, e + 1) ELSE Fin(s, q + 1, e))
    ELSE Fin(s, q, e)

\* RoundPack for M of len bits
RoundLen(s, M, e, sticky, len) ==
    IF len <= 24 THEN Fin(s, M * 2^(24 - len), e - (24 - len))
    ELSE RoundBits(s, M \div 2^(len - 24), M % 2^(len - 24), 2^(len - 25),
                   e + (len - 24), sticky)

\* the float nearest to (-1)^s * (M + f) * 2^e, where 0 <= f < 1 and f # 0
\* iff sticky; ties go to the even mantissa.  sticky needs M >= 2^25.
RoundPack(s, M, e, sticky) ==
    IF M = 0 THEN Zero(s) ELSE RoundLen(s, M, e, sticky, BitLen(M))

\* int to float (exact for |i| < 2^24)
F(i) == RoundPack(IF i < 0 THEN 1 ELSE 0, Abs(i), 0, FALSE)

FNeg(a) == IF IsNaN(a) THEN a ELSE [a EXCEPT !.s = 1 - a.s]

FAbs(a) == IF IsNaN(a) THEN a ELSE [a EXCEPT !.s = 0]

\* M shifted right by sh bits, the bits shifted out or-ed into the last bit
ShiftRightJam(M, sh) ==
    IF sh >= 31 THEN (IF M # 0 THEN 1 ELSE 0)
    ELSE IF M % 2^sh # 0 /\ (M \div 2^sh) % 2 = 0 THEN M \div 2^sh + 1
    ELSE M \div 2^sh

\* the float nearest to S * 2^e
AddPack(S, e) ==
    IF S = 0 THEN Zero(0) ELSE RoundPack(IF S < 0 THEN 1 ELSE 0, Abs(S), e, FALSE)

\* big + small for finite nonzero floats with big.e >= small.e
AddOrdered(big, small) ==
    AddPack(Signed(big.s, big.m * 64)
                + Signed(small.s, ShiftRightJam(small.m * 64, big.e - small.e)),
            big.e - 6)

\* a + b
FAdd(a, b) ==
    IF IsNaN(a) \/ IsNaN(b) THEN NaN
    ELSE IF a.k = "inf" /\ b.k = "inf" THEN (IF a.s = b.s THEN a ELSE NaN)
    ELSE IF a.k = "inf" THEN a
    ELSE IF b.k = "inf" THEN b
    ELSE IF a.m = 0 /\ b.m = 0 THEN Zero(IF a.s = 1 /\ b.s = 1 THEN 1 ELSE 0)
    ELSE IF a.m = 0 THEN b
    ELSE IF b.m = 0 THEN a
    ELSE AddOrdered(IF a.e >= b.e THEN a ELSE b, IF a.e >= b.e THEN b ELSE a)

\* a - b
FSub(a, b) == FAdd(a, FNeg(b))

\* the float nearest to (-1)^s * (H * 2^24 + L) * 2^e
MulPack(s, H, L, e) ==
    RoundPack(s, H * 16 + L \div 1048576, e + 20, L % 1048576 # 0)

\* the product of the mantissas from its partial products: hh * 2^24 +
\* mid * 2^12 + ll
MulSum(s, hh, mid, low, e) ==
    MulPack(s, hh + mid \div 4096 + low \div 16777216, low % 16777216, e)

MulParts(s, hh, mid, ll, e) == MulSum(s, hh, mid, (mid % 4096) * 4096 + ll, e)

\* the mantissas in 12-bit halves
MulLimbs(s, ah, al, bh, bl, e) ==
    MulParts(s, ah * bh, ah * bl + al * bh, al * bl, e)

\* a * b
FMul(a, b) ==
    IF IsNaN(a) \/ IsNaN(b) THEN NaN
    ELSE IF a.k = "inf" \/ b.k = "inf"
         THEN (IF IsZero(a) \/ IsZero(b) THEN NaN ELSE Inf(IF a.s = b.s THEN 0 ELSE 1))
    ELSE IF a.m = 0 \/ b.m = 0 THEN Zero(IF a.s = b.s THEN 0 ELSE 1)
    ELSE MulLimbs(IF a.s = b.s THEN 0 ELSE 1, a.m \div 4096, a.m % 4096,
                  b.m \div 4096, b.m % 4096, a.e + b.e)

\* the quotient and remainder of (r * 2^(7 * n)) by d, seven bits at a time
RECURSIVE LongDiv(_, _, _, _)
LongDiv(q, r, d, n) ==
    IF n = 0 THEN <<q, r>>
    ELSE LongDiv(q * 128 + (r * 128) \div d, (r * 128) % d, d, n - 1)

\* the float nearest to the quotient qr[1] with remainder qr[2]
DivPack(s, qr, e) == RoundPack(s, qr[1], e, qr[2] # 0)

\* a / b; a division by zero gives an infinity or NaN
FDiv(a, b) ==
    IF IsNaN(a) \/ IsNaN(b) THEN NaN
    ELSE IF a.k = "inf"
         THEN (IF b.k = "inf" THEN NaN ELSE Inf(IF a.s = b.s THEN 0 ELSE 1))
    ELSE IF b.k = "inf" THEN Zero(IF a.s = b.s THEN 0 ELSE 1)
    ELSE IF b.m = 0
         THEN (IF a.m = 0 THEN NaN ELSE Inf(IF a.s = b.s THEN 0 ELSE 1))
    ELSE IF a.m = 0 THEN Zero(IF a.s = b.s THEN 0 ELSE 1)
    ELSE DivPack(IF a.s = b.s THEN 0 ELSE 1,
                 LongDiv(a.m \div b.m, a.m % b.m, b.m, 4), a.e - b.e - 28)

\* the magnitude of a float as a tuple ordered like the magnitudes
Mag(x) ==
    IF x.k = "inf" THEN <<1, 0, 0>>
    ELSE IF x.m = 0 THEN <<-1, 0, 0>> ELSE <<0, x.e, x.m>>

MagCompare(p, q) ==
    IF p = q THEN 0
    ELSE IF p[1] # q[1] THEN (IF p[1] < q[1] THEN -1 ELSE 1)
    ELSE IF p[2] # q[2] THEN (IF p[2] < q[2] THEN -1 ELSE 1)
    ELSE IF p[3] < q[3] THEN -1 ELSE 1

\* -1, 0 or 1 as a < b, a == b or a > b, for a and b other than NaN
Compare(a, b) ==
    IF IsZero(a) /\ IsZero(b) THEN 0
    ELSE IF a.s # b.s THEN (IF a.s = 1 THEN -1 ELSE 1)
    ELSE Signed(a.s, MagCompare(Mag(a), Mag(b)))

\* a < b
FLess(a, b) == ~IsNaN(a) /\ ~IsNaN(b) /\ Compare(a, b) = -1

\* a > b
FGreater(a, b) == FLess(b, a)

\* a == b
FEq(a, b) == ~IsNaN(a) /\ ~IsNaN(b) /\ Compare(a, b) = 0

\* the integer part and "has a fraction" of the magnitude of a finite float
IntPart(a) ==
    IF a.m = 0 THEN <<0, FALSE>>
    ELSE IF a.e >= 0 THEN <<a.m * 2^a.e, FALSE>>
    ELSE IF -a.e >= 31 THEN <<0, TRUE>>
    ELSE <<a.m \div 2^(-a.e), a.m % 2^(-a.e) # 0>>

CeilOf(s, ip) == IF s = 1 THEN -ip[1] ELSE IF ip[2] THEN ip[1] + 1 ELSE ip[1]

\* static_cast<int>(std::ceil(a)) of a finite float
Ceil(a) == CeilOf(a.s, IntPart(a))

\* static_cast<int>(a) of a finite float: truncation toward zero
Trunc(a) == Signed(a.s, IntPart(a)[1])

(***************************************************************************)
(* Color and the two buffers                                               *)
(***************************************************************************)
Color(red, green, blue) == [r |-> red, g |-> green, b |-> blue, a |-> 255]

\* the depth of the far plane written by clearBuffers
FarDepth == F(1)

Pixels == (0 .. width - 1) \X (0 .. height - 1)

\* isInBounds without the test of x against width
isInBounds_noRightEdge(x, y) == x >= 0 /\ y >= 0 /\ y < height

isInBounds(x, y) == x >= 0 /\ x < width /\ y >= 0 /\ y < height

\* the colour stored at an in-bounds pixel of buffers B
PixelAt(B, x, y) ==
    LET index == (y * width + x) * 3
    IN  <<B.fb[index], B.fb[index + 1], B.fb[index + 2]>>

DepthAt(B, x, y) == B.db[y * width + x]

RGB(c) == <<c.r, c.g, c.b>>

\* clearBuffers with both loops stopping one pixel early
clearBuffers_offByOne(B, clearColor) ==
    [fb |-> [i \in 0 .. (width * height * 3 - 1) |->
                IF i >= (width * height - 1) * 3
                THEN (IF i \in DOMAIN B.fb THEN B.fb[i] ELSE 0)
                ELSE IF i % 3 = 0 THEN clearColor.r
                ELSE IF i % 3 = 1 THEN clearColor.g ELSE clearColor.b],
     db |-> [i \in 0 .. (width * height - 1) |->
                IF i = width * height - 1
                THEN (IF i \in DOMAIN B.db THEN B.db[i] ELSE F(0))
                ELSE FarDepth]]

clearBuffers(B, clearColor) ==
    [fb |-> [i \in 0 .. (width * height * 3 - 1) |->
                IF i % 3 = 0 THEN clearColor.r
                ELSE IF i % 3 = 1 THEN clearColor.g ELSE clearColor.b],
     db |-> [i \in 0 .. (width * height - 1) |-> FarDepth]]

\* setPixel that leaves a pixel with a stored depth of at most 0.8 alone
setPixel_depthTested(B, x, y, color) ==
    IF ~isInBounds(x, y) \/ ~FLess(FDiv(F(4), F(5)), B.db[y * width + x]) THEN B
    ELSE LET index == (y * width + x) * 3
         IN  [B EXCEPT !.fb = [@ EXCEPT ![index] = color.r,
                                        ![index + 1] = color.g,
                                        ![index + 2] = color.b]]

setPixel(B, x, y, color) ==
    IF ~isInBounds(x, y) THEN B
    ELSE LET index == (y * width + x) * 3
         IN  [B EXCEPT !.fb = [@ EXCEPT ![index] = color.r,
                                        ![index + 1] = color.g,
                                        ![index + 2] = color.b]]

\* setPixelWithDepth storing the colour of a closer write but not its depth
setPixelWithDepth_keepDepth(B, x, y, depth, color) ==
    IF ~isInBounds(x, y) THEN B
    ELSE LET index == y * width + x
             colorIndex == index * 3
         IN  IF FLess(depth, B.db[index])
             THEN [fb |-> [B.fb EXCEPT ![colorIndex] = color.r,
                                       ![colorIndex + 1] = color.g,
                                       ![colorIndex + 2] = color.b],
                   db |-> B.db]
             ELSE B

\* setPixelWithDepth with the depth test depth <= stored
setPixelWithDepth_lessEqual(B, x, y, depth, color) ==
    IF ~isInBounds(x, y) THEN B
    ELSE LET index == y * width + x
             colorIndex == index * 3
         IN  IF ~FGreater(depth, B.db[index])
             THEN [fb |-> [B.fb EXCEPT ![colorIndex] = color.r,
                                       ![colorIndex + 1] = color.g,
                                       ![colorIndex + 2] = color.b],
                   db |-> [B.db EXCEPT ![index] = depth]]
             ELSE B

setPixelWithDepth(B, x, y, depth, color) ==
    IF ~isInBounds(x, y) THEN B
    ELSE LET index == y * width + x
             colorIndex == index * 3
         IN  IF FLess(depth, B.db[index])
             THEN [fb |-> [B.fb EXCEPT ![colorIndex] = color.r,
                                       ![colorIndex + 1] = color.g,
                                       ![colorIndex + 2] = color.b],
                   db |-> [B.db EXCEPT ![index] = depth]]
             ELSE B

\* the buffers after the setPixel calls of a drawing routine, made in order
RECURSIVE Plot(_, _, _)
Plot(B, calls, color) ==
    IF calls = <<>> THEN B
    ELSE Plot(setPixel(B, Head(calls)[1], Head(calls)[2], color), Tail(calls), color)

\* the pixels named by a sequence of setPixel calls
Touched(calls) == {calls[i] : i \in 1 .. Len(calls)}

(***************************************************************************)
(* Bresenham line                                                          *)
(***************************************************************************)
\* the loop of drawLineLow stopping one column before x2
RECURSIVE LowLoop_exclusive(_, _, _, _, _, _, _)
LowLoop_exclusive(x, x2, y, D, dx, dy, yi) ==
    IF x >= x2 THEN <<>>
    ELSE <<<<x, y>>>> \o
         LowLoop_exclusive(x + 1, x2, IF D > 0 THEN y + yi ELSE y,
                           (IF D > 0 THEN D - 2 * dx ELSE D) + 2 * dy, dx, dy, yi)

\* the loop of drawLineLow from column x on: the (x, y) of its setPixel calls
RECURSIVE LowLoop(_, _, _, _, _, _, _)
LowLoop(x, x2, y, D, dx, dy, yi) ==
    IF x > x2 THEN <<>>
    ELSE <<<<x, y>>>> \o
         LowLoop(x + 1, x2, IF D > 0 THEN y + yi ELSE y,
                 (IF D > 0 THEN D - 2 * dx ELSE D) + 2 * dy, dx, dy, yi)

drawLineLow(x1, y1, x2, y2) ==
    LET dx == x2 - x1
        dy0 == y2 - y1
        yi == IF dy0 < 0 THEN -1 ELSE 1
        dy == IF dy0 < 0 THEN -dy0 ELSE dy0
    IN  LowLoop(x1, x2, y1, 2 * dy - dx, dx, dy, yi)

\* the loop of drawLineHigh from row y on
RECURSIVE HighLoop(_, _, _, _, _, _, _)
HighLoop(y, y2, x, D, dx, dy, xi) ==
    IF y > y2 THEN <<>>
    ELSE <<<<x, y>>>> \o
         HighLoop(y + 1, y2, IF D > 0 THEN x + xi ELSE x,
                  (IF D > 0 THEN D - 2 * dy ELSE D) + 2 * dx, dx, dy, xi)

drawLineHigh(x1, y1, x2, y2) ==
    LET dx0 == x2 - x1
        dy == y2 - y1
        xi == IF dx0 < 0 THEN -1 ELSE 1
        dx == IF dx0 < 0 THEN -dx0 ELSE dx0
    IN  HighLoop(y1, y2, x1, 2 * dx - dy, dx, dy, xi)

\* draw_line without the exchange of the endpoints
draw_lineCalls_noSwap(x1, y1, x2, y2) ==
    IF Abs(y2 - y1) < Abs(x2 - x1)
    THEN drawLineLow(x1, y1, x2, y2)
    ELSE drawLineHigh(x1, y1, x2, y2)

\* the setPixel calls of draw_line(x1, y1, x2, y2, color), in order
draw_lineCalls(x1, y1, x2, y2) ==
    IF Abs(y2 - y1) < Abs(x2 - x1)
    THEN (IF x1 > x2 THEN drawLineLow(x2, y2, x1, y1)
                     ELSE drawLineLow(x1, y1, x2, y2))
    ELSE (IF y1 > y2 THEN drawLineHigh(x2, y2, x1, y1)
                     ELSE drawLineHigh(x1, y1, x2, y2))

draw_line(B, x1, y1, x2, y2, color) ==
    Plot(B, draw_lineCalls(x1, y1, x2, y2), color)

(***************************************************************************)
(* Mid-point circle                                                        *)
(***************************************************************************)
drawCirclePoints(xc, yc, x, y) ==
    << <<xc + x, yc + y>>, <<xc - x, yc + y>>,
       <<xc + x, yc - y>>, <<xc - x, yc - y>>,
       <<xc + y, yc + x>>, <<xc - y, yc + x>>,
       <<xc + y, yc - x>>, <<xc - y, yc - x>> >>

\* the while loop of draw_circle, the E step adding 2x + 1 for the x before
\* its increment
RECURSIVE CircleLoop_staleX(_, _, _, _, _)
CircleLoop_staleX(xc, yc, x, y, d) ==
    IF ~(x < y) THEN <<>>
    ELSE LET xn == x + 1
             yn == IF d < 0 THEN y ELSE y - 1
             dn == IF d < 0 THEN d + 2 * x + 1 ELSE d + 2 * (xn - yn) + 1
         IN  drawCirclePoints(xc, yc, xn, yn) \o CircleLoop_staleX(xc, yc, xn, yn, dn)

\* the while loop of draw_circle
RECURSIVE CircleLoop(_, _, _, _, _)
CircleLoop(xc, yc, x, y, d) ==
    IF ~(x < y) THEN <<>>
    ELSE LET xn == x + 1
             yn == IF d < 0 THEN y ELSE y - 1
             dn == IF d < 0 THEN d + 2 * xn + 1 ELSE d + 2 * (xn - yn) + 1
         IN  drawCirclePoints(xc, yc, xn, yn) \o CircleLoop(xc, yc, xn, yn, dn)

\* the setPixel calls of draw_circle(xc, yc, r, color), in order
draw_circleCalls(xc, yc, r) ==
    drawCirclePoints(xc, yc, 0, r) \o CircleLoop(xc, yc, 0, r, 1 - r)

draw_circle(B, xc, yc, r, color) == Plot(B, draw_circleCalls(xc, yc, r), color)

(***************************************************************************)
(* Filled triangle                                                         *)
(***************************************************************************)
\* a Vertex: screen-space position and colour.  worldPos and normal are
\* carried by the C++ struct, but no Rasterizer routine reads them.
Vertex(x, y, z, color) == [position |-> [x |-> x, y |-> y, z |-> z], color |-> color]

\* glm::mix(a, b, t)
mix(a, b, t) == FAdd(FMul(a, FSub(F(1), t)), FMul(b, t))

\* the value of a byte whose conversion from float is undefined
Indeterminate == -1

\* a truncated value as a byte
Byte(t) == IF t >= 0 /\ t <= 255 THEN t ELSE Indeterminate

\* static_cast<uint8_t>(a): truncation toward zero; undefined when the
\* truncated value is not one of 0 .. 255
ToUint8(a) == IF ~IsFinite(a) THEN Indeterminate ELSE Byte(Trunc(a))

\* the 1e-6f of computeBarycentric
Epsilon == FDiv(F(1), F(1000000))

\* glm::vec3(w)
Splat(w) == [x |-> w, y |-> w, z |-> w]

\* the weights with w1 and w2 exchanged
Weights_swapped(w1, w2) == [x |-> w2, y |-> w1, z |-> FSub(FSub(F(1), w1), w2)]

\* the weights from w1 and w2
Weights(w1, w2) == [x |-> w1, y |-> w2, z |-> FSub(FSub(F(1), w1), w2)]

\* the denominator of computeBarycentric: twice the signed area
BarycentricDenominator(v1, v2, v3) ==
    FAdd(FMul(FSub(v2.y, v3.y), FSub(v1.x, v3.x)),
         FMul(FSub(v3.x, v2.x), FSub(v1.y, v3.y)))

\* the test of computeBarycentric for a degenerate triangle
IsDegenerate(denominator) == FLess(FAbs(denominator), Epsilon)

\* computeBarycentric without the test for a degenerate triangle
BarycentricOver_noGuard(x, y, v1, v2, v3, denominator) ==
    Weights(FDiv(FAdd(FMul(FSub(v2.y, v3.y), FSub(x, v3.x)),
                      FMul(FSub(v3.x, v2.x), FSub(y, v3.y))), denominator),
            FDiv(FAdd(FMul(FSub(v3.y, v1.y), FSub(x, v3.x)),
                      FMul(FSub(v1.x, v3.x), FSub(y, v3.y))), denominator))

\* computeBarycentric from its denominator on
BarycentricOver(x, y, v1, v2, v3, denominator) ==
    IF IsDegenerate(denominator)
    THEN Splat(FDiv(F(1), F(3)))
    ELSE Weights(FDiv(FAdd(FMul(FSub(v2.y, v3.y), FSub(x, v3.x)),
                           FMul(FSub(v3.x, v2.x), FSub(y, v3.y))), denominator),
                 FDiv(FAdd(FMul(FSub(v3.y, v1.y), FSub(x, v3.x)),
                           FMul(FSub(v1.x, v3.x), FSub(y, v3.y))), denominator))

computeBarycentric(x, y, v1, v2, v3) ==
    BarycentricOver(x, y, v1, v2, v3, BarycentricDenominator(v1, v2, v3))

\* bary.x * a + bary.y * b + bary.z * c, for ints or floats a, b, c
Blend(bary, a, b, c) == FAdd(FAdd(FMul(bary.x, a), FMul(bary.y, b)), FMul(bary.z, c))

\* the arguments of the setPixelWithDepth call for pixel (x, y) with weights bary
Shade(x, y, v1, v2, v3, bary) ==
    [x |-> x, y |-> y,
     depth |-> Blend(bary, v1.position.z, v2.position.z, v3.position.z),
     color |-> Color(ToUint8(Blend(bary, F(v1.color.r), F(v2.color.r), F(v3.color.r))),
                     ToUint8(Blend(bary, F(v1.color.g), F(v2.color.g), F(v3.color.g))),
                     ToUint8(Blend(bary, F(v1.color.b), F(v2.color.b), F(v3.color.b))))]

\* the body of the inner loop of both fill routines: the arguments of the
\* setPixelWithDepth call made for pixel (x, y)
Fragment(x, y, v1, v2, v3) ==
    Shade(x, y, v1, v2, v3,
          computeBarycentric(F(x), F(y), v1.position, v2.position, v3.position))

\* for (int x = xStart; x < xEnd; ++x)
RECURSIVE ScanLine(_, _, _, _, _, _)
ScanLine(x, xEnd, y, v1, v2, v3) ==
    IF ~(x < xEnd) THEN <<>>
    ELSE <<Fragment(x, y, v1, v2, v3)>> \o ScanLine(x + 1, xEnd, y, v1, v2, v3)

\* for (int y = startY; y < endY; ++y) of fillFlatBottomTriangle
RECURSIVE FlatBottomLoop(_, _, _, _, _, _, _, _, _)
FlatBottomLoop(y, endY, x1, x2, invSlope1, invSlope2, v1, v2, v3) ==
    IF ~(y < endY) THEN <<>>
    ELSE ScanLine(Ceil(x1), Ceil(x2), y, v1, v2, v3) \o
         FlatBottomLoop(y + 1, endY, FAdd(x1, invSlope1), FAdd(x2, invSlope2),
                        invSlope1, invSlope2, v1, v2, v3)

\* the setPixelWithDepth calls of fillFlatBottomTriangle(v1, v2, v3), in order
fillFlatBottomTriangle(v1, v2, v3) ==
    LET invSlope1 == FDiv(FSub(v2.position.x, v1.position.x),
                          FSub(v2.position.y, v1.position.y))
        invSlope2 == FDiv(FSub(v3.position.x, v1.position.x),
                          FSub(v3.position.y, v1.position.y))
    IN  FlatBottomLoop(Ceil(v1.position.y), Ceil(v2.position.y),
                       v1.position.x, v1.position.x, invSlope1, invSlope2, v1, v2, v3)

\* for (int y = startY; y > endY; --y) of fillFlatTopTriangle
RECURSIVE FlatTopLoop(_, _, _, _, _, _, _, _, _)
FlatTopLoop(y, endY, x1, x2, invSlope1, invSlope2, v1, v2, v3) ==
    IF ~(y > endY) THEN <<>>
    ELSE ScanLine(Ceil(x1), Ceil(x2), y, v1, v2, v3) \o
         FlatTopLoop(y - 1, endY, FSub(x1, invSlope1), FSub(x2, invSlope2),
                     invSlope1, invSlope2, v1, v2, v3)

\* the setPixelWithDepth calls of fillFlatTopTriangle(v1, v2, v3), in order
fillFlatTopTriangle(v1, v2, v3) ==
    LET invSlope1 == FDiv(FSub(v3.position.x, v1.position.x),
                          FSub(v3.position.y, v1.position.y))
        invSlope2 == FDiv(FSub(v3.position.x, v2.position.x),
                          FSub(v3.position.y, v2.position.y))
    IN  FlatTopLoop(Ceil(v3.position.y), Ceil(v1.position.y),
                    v3.position.x, v3.position.x, invSlope1, invSlope2, v1, v2, v3)

\* the comparison of the sort in drawTriangle
YLess(a, b) == FLess(a.position.y, b.position.y)

\* v3 put into the sorted pair p, q
Insert3(p, q, v3) ==
    IF YLess(v3, p) THEN <<v3, p, q>>
    ELSE IF YLess(v3, q) THEN <<p, v3, q>> ELSE <<p, q, v3>>

\* std::sort of the three vertices by position.y: on three elements every
\* standard library runs an insertion sort, which keeps equal keys in order
SortByY(v1, v2, v3) ==
    IF YLess(v2, v1) THEN Insert3(v2, v1, v3) ELSE Insert3(v1, v2, v3)

\* the vertex at parameter t of edge top-bot
SplitAt(top, bot, t) ==
    [position |-> [x |-> mix(top.position.x, bot.position.x, t),
                   y |-> mix(top.position.y, bot.position.y, t),
                   z |-> mix(top.position.z, bot.position.z, t)],
     color |-> Color(ToUint8(mix(F(top.color.r), F(bot.color.r), t)),
                     ToUint8(mix(F(top.color.g), F(bot.color.g), t)),
                     ToUint8(mix(F(top.color.b), F(bot.color.b), t)))]

\* the vertex drawTriangle puts on edge top-bot at the height of mid
SplitVertex(top, mid, bot) ==
    SplitAt(top, bot, FDiv(FSub(mid.position.y, top.position.y),
                           FSub(bot.position.y, top.position.y)))

\* the general case of drawTriangle: both halves
FillHalves(top, mid, bot, splitVertex) ==
    fillFlatBottomTriangle(top, mid, splitVertex) \o
    fillFlatTopTriangle(mid, splitVertex, bot)

\* drawTriangle that draws its top vertex when the three y are equal
FillSorted_point(top, mid, bot) ==
    IF FEq(top.position.y, bot.position.y)
    THEN <<[x |-> Trunc(top.position.x), y |-> Trunc(top.position.y),
            depth |-> top.position.z, color |-> top.color]>>
    ELSE IF FEq(mid.position.y, bot.position.y)
         THEN fillFlatBottomTriangle(top, mid, bot)
    ELSE IF FEq(top.position.y, mid.position.y)
         THEN fillFlatTopTriangle(top, mid, bot)
    ELSE FillHalves(top, mid, bot, SplitVertex(top, mid, bot))

\* drawTriangle after its sort
FillSorted(top, mid, bot) ==
    IF FEq(top.position.y, bot.position.y) THEN <<>>
    ELSE IF FEq(mid.position.y, bot.position.y)
         THEN fillFlatBottomTriangle(top, mid, bot)
    ELSE IF FEq(top.position.y, mid.position.y)
         THEN fillFlatTopTriangle(top, mid, bot)
    ELSE FillHalves(top, mid, bot, SplitVertex(top, mid, bot))

FillVerts(verts) == FillSorted(verts[1], verts[2], verts[3])

\* drawTriangle that takes the colour of v1 for the whole triangle when
\* useGouraud is false
drawTriangleCalls_flat(v1, v2, v3, useGouraud) ==
    IF useGouraud THEN FillVerts(SortByY(v1, v2, v3))
    ELSE FillVerts(SortByY(v1, [v2 EXCEPT !.color = v1.color],
                           [v3 EXCEPT !.color = v1.color]))

\* the setPixelWithDepth calls of drawTriangle(v1, v2, v3, useGouraud), in order
drawTriangleCalls(v1, v2, v3, useGouraud) == FillVerts(SortByY(v1, v2, v3))

\* the buffers after a sequence of setPixelWithDepth calls, made in order
RECURSIVE PlotDepth(_, _)
PlotDepth(B, calls) ==
    IF calls = <<>> THEN B
    ELSE PlotDepth(setPixelWithDepth(B, Head(calls).x, Head(calls).y,
                                     Head(calls).depth, Head(calls).color),
                   Tail(calls))

drawTriangle(B, v1, v2, v3, useGouraud) ==
    PlotDepth(B, drawTriangleCalls(v1, v2, v3, useGouraud))

\* the setPixel calls of drawWireframeTriangle(v1, v2, v3, color), in order
drawWireframeTriangleCalls(v1, v2, v3) ==
    LET x1 == Trunc(v1.position.x)
        y1 == Trunc(v1.position.y)
        x2 == Trunc(v2.position.x)
        y2 == Trunc(v2.position.y)
        x3 == Trunc(v3.position.x)
        y3 == Trunc(v3.position.y)
    IN  draw_lineCalls(x1, y1, x2, y2) \o draw_lineCalls(x2, y2, x3, y3) \o
        draw_lineCalls(x3, y3, x1, y1)

drawWireframeTriangle(B, v1, v2, v3, color) ==
    Plot(B, drawWireframeTriangleCalls(v1, v2, v3), color)

(***************************************************************************)
(* The Rasterizer as a state machine: one action per public method.        *)
(* hist is the sequence of calls made since construction.                  *)
(***************************************************************************)
Buffers == [fb |-> frameBuffer, db |-> depthBuffer]

Idle == [op |-> "idle"]

\* Rasterizer::Rasterizer: allocates both buffers and calls clearBuffers()
\* with its default argument Color(0, 0, 0, 255)
Constructed == clearBuffers([fb |-> <<>>, db |-> <<>>], Color(0, 0, 0))

\* glm::mat4(1.0f): the four columns of the identity
Identity ==
    << <<F(1), F(0), F(0), F(0)>>, <<F(0), F(1), F(0), F(0)>>,
       <<F(0), F(0), F(1), F(0)>>, <<F(0), F(0), F(0), F(1)>> >>

\* Transform::Transform()
TransformConstructed ==
    [modelMatrix |-> Identity, viewMatrix |-> Identity, projectionMatrix |-> Identity,
     matrixStack |-> <<>>]

Init ==
    /\ frameBuffer = Constructed.fb
    /\ depthBuffer = Constructed.db
    /\ hist = <<>>
    /\ clip = Idle
    /\ call = Idle
    /\ transform = TransformConstructed

\* the step made by one call: the buffers become B and the call is recorded
Step(B, entry) ==
    /\ frameBuffer' = B.fb
    /\ depthBuffer' = B.db
    /\ hist' = Append(hist, entry)
    /\ UNCHANGED <<clip, call, transform>>

Black == Color(0, 0, 0)
Background == Color(10, 20, 30)
Red == Color(255, 0, 0)
Green == Color(0, 255, 0)
Near == FDiv(F(1), F(5))
Far == FDiv(F(4), F(5))
Beyond == F(2)

ClearColors == {Black, Background}

\* arguments of setPixel: one pixel inside, and one beyond each edge
SetPixelArgs ==
    {<<1, 1>>, <<width, 0>>, <<2, height>>, <<-1, 2>>}

\* arguments of setPixelWithDepth
DepthPixelArgs ==
    ({<<1, 1>>} \X {Near, Far, FarDepth} \X {Red})
        \cup {<<<<1, 1>>, Near, Green>>, <<<<width, 1>>, Near, Green>>,
              <<<<0, -1>>, Near, Green>>, <<<<1, 1>>, Beyond, Green>>}

\* arguments of draw_line: endpoints off-screen on either side
LineArgs ==
    {<<-1, 1, width, 2>>, <<1, height, 2, -1>>}

\* arguments of draw_circle
CircleArgs == {<<width - 1, height - 1, 3>>}

\* a triangle of one depth and one colour on integer coordinates
FlatTriangle(ax, ay, bx, by, cx, cy, z, color) ==
    [v1 |-> Vertex(F(ax), F(ay), z, color),
     v2 |-> Vertex(F(bx), F(by), z, color),
     v3 |-> Vertex(F(cx), F(cy), z, color)]

\* The argument triangles are numbered.  The first ones are named cases:
\* two triangles over the same pixels, one partly off-screen, two at the
\* depth of the far plane.
NamedTriangles ==
    << FlatTriangle(0, 0, width, 0, 0, height, Far, Green),
       FlatTriangle(0, height, 0, 0, width, 0, Near, Red),
       FlatTriangle(width + 1, -1, -1, 2, width + 1, height + 1, Near, Green),
       FlatTriangle(0, 0, width, 0, 0, height, FarDepth, Red),
       FlatTriangle(0, 0, 0, 3, 1, 3, FarDepth, Red) >>

NamedIds == 1 .. Len(NamedTriangles)

\* The others have their vertices among four screen points; each occurs as
\* a near red and as a far green triangle.
GridPoints == << <<0, 0>>, <<0, 3>>, <<3, 4>>, <<4, 0>> >>

GridCount == Len(GridPoints) * Len(GridPoints) * Len(GridPoints)

GridTriangle(i) ==
    LET n == Len(GridPoints)
        a == GridPoints[(i % n) + 1]
        b == GridPoints[((i \div n) % n) + 1]
        c == GridPoints[((i \div (n * n)) % n) + 1]
    IN  IF i \div GridCount = 0
        THEN FlatTriangle(a[1], a[2], b[1], b[2], c[1], c[2], Near, Red)
        ELSE FlatTriangle(a[1], a[2], b[1], b[2], c[1], c[2], Far, Green)

GridIds == (Len(NamedTriangles) + 1) .. (Len(NamedTriangles) + 2 * GridCount)

TriangleIds == NamedIds \cup GridIds

Triangles ==
    [id \in TriangleIds |->
        IF id \in NamedIds THEN NamedTriangles[id]
        ELSE GridTriangle(id - Len(NamedTriangles) - 1)]

\* drawTriangleCalls of every argument triangle, computed once
FillOf ==
    [id \in TriangleIds |->
        [g \in BOOLEAN |->
            drawTriangleCalls(Triangles[id].v1, Triangles[id].v2, Triangles[id].v3, g)]]

\* the in-bounds pixels that a sequence of setPixelWithDepth calls names
Covered(calls) == {<<calls[i].x, calls[i].y>> : i \in 1 .. Len(calls)} \cap Pixels

CoverOf == [id \in TriangleIds |-> Covered(FillOf[id][TRUE])]

\* argument of drawWireframeTriangle
WireArgs == {FlatTriangle(-1, 1, width + 1, 2, 1, height + 1, Near, Green)}

ClearBuffers(clearColor) ==
    /\ Len(hist) < MaxOps
    /\ Step(clearBuffers(Buffers, clearColor),
            [op |-> "clearBuffers", clearColor |-> clearColor])

SetPixel(x, y, color) ==
    /\ Len(hist) < MaxOps
    /\ Step(setPixel(Buffers, x, y, color),
            [op |-> "setPixel", x |-> x, y |-> y, color |-> color])

SetPixelWithDepth(x, y, depth, color) ==
    /\ Len(hist) < MaxOps
    /\ Step(setPixelWithDepth(Buffers, x, y, depth, color),
            [op |-> "setPixelWithDepth", x |-> x, y |-> y,
             depth |-> depth, color |-> color])

DrawLine(x1, y1, x2, y2, color) ==
    /\ Len(hist) < MaxOps
    /\ Step(draw_line(Buffers, x1, y1, x2, y2, color),
            [op |-> "draw_line", x1 |-> x1, y1 |-> y1, x2 |-> x2, y2 |-> y2,
             color |-> color])

DrawCircle(xc, yc, r, color) ==
    /\ Len(hist) < MaxOps
    /\ Step(draw_circle(Buffers, xc, yc, r, color),
            [op |-> "draw_circle", xc |-> xc, yc |-> yc, r |-> r, color |-> color])

\* drawTriangle(v1, v2, v3, useGouraud) on the vertices of triangle t
DrawTriangle(t, useGouraud) ==
    /\ Len(hist) < MaxOps
    /\ Step(PlotDepth(Buffers, FillOf[t][useGouraud]),
            [op |-> "drawTriangle", t |-> t, useGouraud |-> useGouraud])

DrawWireframeTriangle(v1, v2, v3, color) ==
    /\ Len(hist) < MaxOps
    /\ Step(drawWireframeTriangle(Buffers, v1, v2, v3, color),
            [op |-> "drawWireframeTriangle", v1 |-> v1, v2 |-> v2, v3 |-> v3,
             color |-> color])

Next ==
    \/ \E c \in ClearColors : ClearBuffers(c)
    \/ \E p \in SetPixelArgs : SetPixel(p[1], p[2], Green)
    \/ \E a \in DepthPixelArgs : SetPixelWithDepth(a[1][1], a[1][2], a[2], a[3])
    \/ \E l \in LineArgs : DrawLine(l[1], l[2], l[3], l[4], Red)
    \/ \E a \in CircleArgs : DrawCircle(a[1], a[2], a[3], Green)
    \/ \E t \in NamedIds : DrawTriangle(t, TRUE)
    \/ \E t \in WireArgs : DrawWireframeTriangle(t.v1, t.v2, t.v3, Red)

Spec == Init /\ [][Next]_vars

\* the most recent call
Last == hist[Len(hist)]

\* the step is one call of the Rasterizer, recorded as Last'
IsCall == Len(hist') = Len(hist) + 1

\* the buffers after the step
BuffersAfter == [fb |-> frameBuffer', db |-> depthBuffer']

\* the (x, y) of every pixel write that call e asks for
WritesOf(e) ==
    CASE e.op = "setPixel" -> {<<e.x, e.y>>}
      [] e.op = "setPixelWithDepth" -> {<<e.x, e.y>>}
      [] e.op = "draw_line" -> Touched(draw_lineCalls(e.x1, e.y1, e.x2, e.y2))
      [] e.op = "draw_circle" -> Touched(draw_circleCalls(e.xc, e.yc, e.r))
      [] e.op = "drawTriangle" ->
            LET calls == FillOf[e.t][e.useGouraud]
            IN  {<<calls[i].x, calls[i].y>> : i \in 1 .. Len(calls)}
      [] e.op = "drawWireframeTriangle" ->
            Touched(drawWireframeTriangleCalls(e.v1, e.v2, e.v3))
      [] OTHER -> Pixels

(***************************************************************************)
(* C1: after clearBuffers(c), whatever was drawn before, every frame       *)
(* buffer pixel holds (c.r, c.g, c.b) and every depth cell holds 1.0.      *)
(***************************************************************************)
C1_ClearResets ==
    (hist # <<>> /\ Last.op = "clearBuffers") =>
        /\ DOMAIN frameBuffer = 0 .. (width * height * 3 - 1)
        /\ DOMAIN depthBuffer = 0 .. (width * height - 1)
        /\ \A i \in 0 .. (width * height - 1) :
              /\ frameBuffer[3 * i] = Last.clearColor.r
              /\ frameBuffer[3 * i + 1] = Last.clearColor.g
              /\ frameBuffer[3 * i + 2] = Last.clearColor.b
              /\ depthBuffer[i] = [k |-> "fin", s |-> 0, m |-> 8388608, e |-> -23]

\* a clear to (10,20,30) right after a triangle was filled
C1_Witness ==
    /\ Len(hist) = 2
    /\ hist[1].op = "drawTriangle" /\ CoverOf[hist[1].t] # {}
    /\ hist[2].op = "clearBuffers" /\ hist[2].clearColor = Background

(***************************************************************************)
(* C2: for an in-bounds (x, y), setPixelWithDepth(x, y, d, c) overwrites   *)
(* the pixel's colour and depth iff d is strictly less than the stored     *)
(* depth; otherwise colour and depth stay, so of two writes of equal depth *)
(* the earlier one survives.                                               *)
(***************************************************************************)
C2_StrictDepthTest ==
    [][(IsCall /\ Last'.op = "setPixelWithDepth" /\ <<Last'.x, Last'.y>> \in Pixels) =>
         LET x == Last'.x
             y == Last'.y
             stored == DepthAt(Buffers, x, y)
             closer == Compare(Last'.depth, stored) = -1
         IN  IF closer
             THEN /\ PixelAt(BuffersAfter, x, y) = RGB(Last'.color)
                  /\ DepthAt(BuffersAfter, x, y) = Last'.depth
             ELSE /\ PixelAt(BuffersAfter, x, y) = PixelAt(Buffers, x, y)
                  /\ DepthAt(BuffersAfter, x, y) = stored]_vars

\* two writes of the same depth and different colours: the first is kept
C2_Witness ==
    /\ Len(hist) >= 2
    /\ LET e1 == hist[Len(hist) - 1]
           e2 == Last
       IN  /\ e1.op = "setPixelWithDepth" /\ e2.op = "setPixelWithDepth"
           /\ <<e1.x, e1.y>> = <<e2.x, e2.y>> /\ <<e1.x, e1.y>> \in Pixels
           /\ e1.depth = e2.depth /\ e1.color # e2.color
           /\ DepthAt(Buffers, e1.x, e1.y) = e1.depth
           /\ PixelAt(Buffers, e1.x, e1.y) = RGB(e1.color)

(***************************************************************************)
(* C4: a pixel write outside [0,width) x [0,height) changes neither        *)
(* buffer: setPixel and setPixelWithDepth off-screen leave every byte and  *)
(* depth cell as it was (x = width does not reach the next row), and the   *)
(* drawing routines change no pixel other than the in-bounds ones they     *)
(* write to.                                                               *)
(***************************************************************************)
C4_OutOfBoundsIgnored ==
    [][(IsCall /\ Last'.op # "clearBuffers") =>
         /\ DOMAIN frameBuffer' = DOMAIN frameBuffer
         /\ DOMAIN depthBuffer' = DOMAIN depthBuffer
         /\ \A p \in Pixels \ WritesOf(Last') :
                  /\ PixelAt(BuffersAfter, p[1], p[2]) = PixelAt(Buffers, p[1], p[2])
                  /\ DepthAt(BuffersAfter, p[1], p[2]) = DepthAt(Buffers, p[1], p[2])
         /\ (Last'.op \in {"setPixel", "setPixelWithDepth"}
               /\ <<Last'.x, Last'.y>> \notin Pixels) =>
                  (frameBuffer' = frameBuffer /\ depthBuffer' = depthBuffer)]_vars

\* setPixel at x = width on a buffer whose pixel (0, y+1) has another colour
C4_Witness ==
    /\ hist # <<>>
    /\ Last.op = "setPixel" /\ Last.x = width /\ Last.y + 1 < height
    /\ PixelAt(Buffers, 0, Last.y + 1) # RGB(Last.color)

(***************************************************************************)
(* Two filled triangles after one clear: the Rasterizer is constructed,    *)
(* optionally cleared to a colour, and then draws one of the numbered      *)
(* triangles and a second one of the other depth over the same pixels.     *)
(***************************************************************************)
Fresh == IF hist = <<>> THEN TRUE ELSE Len(hist) = 1 /\ hist[1].op = "clearBuffers"

TriClear(clearColor) == hist = <<>> /\ ClearBuffers(clearColor)

TriFirst(t) == Fresh /\ DrawTriangle(t, TRUE)

TriSecond(t) ==
    /\ hist # <<>>
    /\ Last.op = "drawTriangle"
    /\ IF Len(hist) = 1 THEN TRUE ELSE hist[Len(hist) - 1].op = "clearBuffers"
    /\ Triangles[t].v1.position.z # Triangles[Last.t].v1.position.z
    /\ CoverOf[Last.t] # {}
    /\ CoverOf[t] = CoverOf[Last.t]
    /\ DrawTriangle(t, TRUE)

NextTri ==
    \/ \E c \in ClearColors : TriClear(c)
    \/ \E t \in GridIds : TriFirst(t)
    \/ \E t \in GridIds : TriSecond(t)

SpecTri == Init /\ [][NextTri]_vars

\* the last two calls drew triangles first and second on buffers just cleared
TwoTriangles ==
    /\ Len(hist) >= 2
    /\ Last.op = "drawTriangle"
    /\ hist[Len(hist) - 1].op = "drawTriangle"
    /\ Len(hist) = 2 \/ hist[Len(hist) - 2].op = "clearBuffers"

\* the buffers the last two triangles were drawn on
ClearedBefore ==
    IF Len(hist) = 2 THEN Constructed
    ELSE clearBuffers(Constructed, hist[Len(hist) - 2].clearColor)

ConstantDepth(t) ==
    /\ Triangles[t].v1.position.z = Triangles[t].v2.position.z
    /\ Triangles[t].v2.position.z = Triangles[t].v3.position.z

ConstantColor(t) ==
    /\ Triangles[t].v1.color = Triangles[t].v2.color
    /\ Triangles[t].v2.color = Triangles[t].v3.color

\* triangles near and far have constant depths dNear < dFar < 1.0, one
\* colour each, and cover the same pixels
NearAndFar(near, far) ==
    /\ ConstantDepth(near) /\ ConstantDepth(far)
    /\ ConstantColor(near) /\ ConstantColor(far)
    /\ Compare(Triangles[near].v1.position.z, Triangles[far].v1.position.z) = -1
    /\ Compare(Triangles[far].v1.position.z, F(1)) = -1
    /\ CoverOf[near] = CoverOf[far]

\* drawing the last two triangles in the other order gives the same buffers
OrderIndependent ==
    LET first == hist[Len(hist) - 1].t
        second == Last.t
    IN  (TwoTriangles /\ (NearAndFar(first, second) \/ NearAndFar(second, first))) =>
            Buffers = PlotDepth(PlotDepth(ClearedBefore, FillOf[second][TRUE]),
                                FillOf[first][TRUE])

\* every pixel the near triangle covers holds the near triangle's colour
NearColorWins ==
    LET first == hist[Len(hist) - 1].t
        second == Last.t
        near == IF NearAndFar(first, second) THEN first ELSE second
    IN  (TwoTriangles /\ (NearAndFar(first, second) \/ NearAndFar(second, first))) =>
            \A p \in CoverOf[near] :
                PixelAt(Buffers, p[1], p[2]) = RGB(Triangles[near].v1.color)

(***************************************************************************)
(* C3: two triangles of constant depth dNear < dFar < 1.0 over the same    *)
(* pixels, drawn after one clearBuffers, leave the same frame buffer and   *)
(* depth buffer whichever is drawn first, and every pixel covered by the   *)
(* near triangle holds the near triangle's colour.                         *)
(***************************************************************************)
C3_DepthOrder == OrderIndependent /\ NearColorWins

(***************************************************************************)
(* Transform: viewportTransform and the Cohen-Sutherland clipLine.         *)
(***************************************************************************)
\* viewportTransform with the Y axis not flipped
viewportTransform_noFlip(ndcCoord, screenWidth, screenHeight) ==
    [x |-> FMul(FMul(FAdd(ndcCoord.x, F(1)), FDiv(F(1), F(2))), F(screenWidth)),
     y |-> FMul(FMul(FAdd(ndcCoord.y, F(1)), FDiv(F(1), F(2))), F(screenHeight))]

viewportTransform(ndcCoord, screenWidth, screenHeight) ==
    [x |-> FMul(FMul(FAdd(ndcCoord.x, F(1)), FDiv(F(1), F(2))), F(screenWidth)),
     y |-> FMul(FMul(FSub(F(1), ndcCoord.y), FDiv(F(1), F(2))), F(screenHeight))]

\* enum ClipCode
INSIDE == 0
LEFT == 1
RIGHT == 2
BOTTOM == 4
TOP == 8

ClipBits == {LEFT, RIGHT, BOTTOM, TOP}

\* code & bit is not zero
HasBit(code, bit) == (code \div bit) % 2 = 1

\* a & b
BitAnd(a, b) ==
    LET both(bit) == IF HasBit(a, bit) /\ HasBit(b, bit) THEN bit ELSE 0
    IN  both(LEFT) + both(RIGHT) + both(BOTTOM) + both(TOP)

\* a | b
BitOr(a, b) ==
    LET either(bit) == IF HasBit(a, bit) \/ HasBit(b, bit) THEN bit ELSE 0
    IN  either(LEFT) + either(RIGHT) + either(BOTTOM) + either(TOP)

\* computeOutCode with a point on the boundary counted as outside
computeOutCode_open(x, y, xMin, yMin, xMax, yMax) ==
    (IF ~FGreater(x, xMin) THEN LEFT
     ELSE IF ~FLess(x, xMax) THEN RIGHT ELSE INSIDE)
    + (IF ~FGreater(y, yMin) THEN BOTTOM
       ELSE IF ~FLess(y, yMax) THEN TOP ELSE INSIDE)

computeOutCode(x, y, xMin, yMin, xMax, yMax) ==
    (IF FLess(x, xMin) THEN LEFT
     ELSE IF FGreater(x, xMax) THEN RIGHT ELSE INSIDE)
    + (IF FLess(y, yMin) THEN BOTTOM
       ELSE IF FGreater(y, yMax) THEN TOP ELSE INSIDE)

\* the divisor of the intersection formula, always taken along x
Divisor_alongX(c, codeOut) == FSub(c.x2, c.x1)

\* the divisor of the intersection formula chosen for codeOut
Divisor(c, codeOut) ==
    IF HasBit(codeOut, TOP) \/ HasBit(codeOut, BOTTOM)
    THEN FSub(c.y2, c.y1)
    ELSE FSub(c.x2, c.x1)

\* the intersection point computed for codeOut
Intersection(c, codeOut) ==
    LET alongY(bound) == FAdd(c.x1, FDiv(FMul(FSub(c.x2, c.x1), FSub(bound, c.y1)),
                                         Divisor(c, codeOut)))
        alongX(bound) == FAdd(c.y1, FDiv(FMul(FSub(c.y2, c.y1), FSub(bound, c.x1)),
                                         Divisor(c, codeOut)))
    IN  IF HasBit(codeOut, TOP) THEN [x |-> alongY(c.yMax), y |-> c.yMax]
        ELSE IF HasBit(codeOut, BOTTOM) THEN [x |-> alongY(c.yMin), y |-> c.yMin]
        ELSE IF HasBit(codeOut, RIGHT) THEN [x |-> c.xMax, y |-> alongX(c.xMax)]
        ELSE [x |-> c.xMin, y |-> alongX(c.xMin)]

\* the state of clipLine on entry to its loop
clipLineEntry(x1, y1, x2, y2, xMin, yMin, xMax, yMax) ==
    [op |-> "clipLine", pc |-> "loop",
     x1 |-> F(x1), y1 |-> F(y1), x2 |-> F(x2), y2 |-> F(y2),
     xMin |-> F(xMin), yMin |-> F(yMin), xMax |-> F(xMax), yMax |-> F(yMax),
     code1 |-> computeOutCode(F(x1), F(y1), F(xMin), F(yMin), F(xMax), F(yMax)),
     code2 |-> computeOutCode(F(x2), F(y2), F(xMin), F(yMin), F(xMax), F(yMax)),
     accept |-> FALSE, iters |-> 0, divByZero |-> FALSE,
     in |-> <<x1, y1, x2, y2>>, rect |-> <<xMin, yMin, xMax, yMax>>]

\* one pass through the else branch of the loop of clipLine
clipReplace(c) ==
    LET codeOut == IF c.code1 # 0 THEN c.code1 ELSE c.code2
        p == Intersection(c, codeOut)
        code == computeOutCode(p.x, p.y, c.xMin, c.yMin, c.xMax, c.yMax)
        d == [c EXCEPT !.iters = @ + 1,
                       !.divByZero = @ \/ IsZero(Divisor(c, codeOut))]
    IN  IF codeOut = c.code1
        THEN [d EXCEPT !.x1 = p.x, !.y1 = p.y, !.code1 = code]
        ELSE [d EXCEPT !.x2 = p.x, !.y2 = p.y, !.code2 = code]

(***************************************************************************)
(* One draw_line on a new Rasterizer, for every pair of endpoints on and   *)
(* around the screen.                                                      *)
(***************************************************************************)
LineCoords == -2 .. (width + 1)

LineDraw(x1, y1, x2, y2) == hist = <<>> /\ DrawLine(x1, y1, x2, y2, Red)

NextLine == \E xa \in LineCoords, ya \in LineCoords, xb \in LineCoords, yb \in LineCoords :
                LineDraw(xa, ya, xb, yb)

SpecLine == Init /\ [][NextLine]_vars

(***************************************************************************)
(* C5: draw_line(x1,y1,x2,y2,c) and draw_line(x2,y2,x1,y1,c) touch the     *)
(* same set of pixels.                                                     *)
(***************************************************************************)
C5_LineSymmetry ==
    [][(IsCall /\ Last'.op = "draw_line") =>
         LET e == Last'
         IN  /\ Touched(draw_lineCalls(e.x1, e.y1, e.x2, e.y2))
                   = Touched(draw_lineCalls(e.x2, e.y2, e.x1, e.y1))
             /\ BuffersAfter = draw_line(Buffers, e.x2, e.y2, e.x1, e.y1, e.color)]_vars

\* a shallow sloped line given right to left that reaches the screen
C5_Witness ==
    /\ hist # <<>>
    /\ Last.op = "draw_line"
    /\ Last.x1 > Last.x2 /\ Last.y1 # Last.y2
    /\ Abs(Last.y2 - Last.y1) < Abs(Last.x2 - Last.x1)
    /\ \E p \in Pixels : PixelAt(Buffers, p[1], p[2]) = RGB(Last.color)

(***************************************************************************)
(* One draw_circle on a new Rasterizer.                                    *)
(***************************************************************************)
MaxRadius == 4

CircleDraw(xc, yc, r) == hist = <<>> /\ DrawCircle(xc, yc, r, Green)

NextCircle == \E xc \in -1 .. width, yc \in -1 .. height, r \in 0 .. MaxRadius :
                  CircleDraw(xc, yc, r)

SpecCircle == Init /\ [][NextCircle]_vars

\* the sixteen points of the circle of radius 3, relative to its centre
Circle3 ==
    {<<3, 0>>, <<-3, 0>>, <<0, 3>>, <<0, -3>>,
     <<1, 3>>, <<-1, 3>>, <<1, -3>>, <<-1, -3>>,
     <<3, 1>>, <<-3, 1>>, <<3, -1>>, <<-3, -1>>,
     <<2, 2>>, <<-2, 2>>, <<2, -2>>, <<-2, -2>>}

(***************************************************************************)
(* C6: draw_circle with radius 3 touches, relative to its centre, exactly  *)
(* the 16 pixels (+-3,0), (0,+-3), (+-1,+-3), (+-3,+-1), (+-2,+-2).        *)
(***************************************************************************)
C6_CircleExact ==
    [][(IsCall /\ Last'.op = "draw_circle" /\ Last'.r = 3) =>
         LET e == Last'
             calls == draw_circleCalls(e.xc, e.yc, e.r)
         IN  /\ {<<p[1] - e.xc, p[2] - e.yc>> : p \in Touched(calls)} = Circle3
             /\ Cardinality(Touched(calls)) = 16
             /\ \A p \in Pixels :
                   PixelAt(BuffersAfter, p[1], p[2]) =
                       IF <<p[1] - e.xc, p[2] - e.yc>> \in Circle3
                       THEN RGB(e.color)
                       ELSE PixelAt(Buffers, p[1], p[2])]_vars

\* a circle of radius 3 with pixels on the screen and pixels off it
C6_Witness ==
    /\ hist # <<>>
    /\ Last.op = "draw_circle" /\ Last.r = 3
    /\ PixelAt(Buffers, Last.xc, Last.yc + 3) = RGB(Last.color)
    /\ PixelAt(Buffers, Last.xc + 2, Last.yc + 2) = RGB(Last.color)
    /\ <<Last.xc - 3, Last.yc>> \notin Pixels

(***************************************************************************)
(* One viewportTransform call.  NDC coordinates are given in halves.       *)
(***************************************************************************)
MaxScreen == 6

Halves == -2 .. 2

Half(h) == FDiv(F(h), F(2))

ViewportTransform(hx, hy, screenWidth, screenHeight) ==
    /\ call.op = "idle"
    /\ call' = [op |-> "viewportTransform", hx |-> hx, hy |-> hy,
                screenWidth |-> screenWidth, screenHeight |-> screenHeight,
                result |-> viewportTransform([x |-> Half(hx), y |-> Half(hy)],
                                             screenWidth, screenHeight)]
    /\ UNCHANGED <<frameBuffer, depthBuffer, hist, clip, transform>>

NextViewport == \E hx \in Halves, hy \in Halves, w \in 1 .. MaxScreen, h \in 1 .. MaxScreen :
                    ViewportTransform(hx, hy, w, h)

SpecViewport == Init /\ [][NextViewport]_vars

(***************************************************************************)
(* C10: viewportTransform maps NDC (0,0) to (W/2, H/2), (-1,-1) to (0, H)  *)
(* and (1,1) to (W, 0): x_screen = (x_ndc + 1) * W / 2 and                 *)
(* y_screen = (1 - y_ndc) * H / 2.                                         *)
(***************************************************************************)
C10_Viewport ==
    call.op = "viewportTransform" =>
        LET W == call.screenWidth
            H == call.screenHeight
            r == call.result
        IN  /\ (call.hx = 0 /\ call.hy = 0) =>
                   FEq(FMul(F(2), r.x), F(W)) /\ FEq(FMul(F(2), r.y), F(H))
            /\ (call.hx = -2 /\ call.hy = -2) => FEq(r.x, F(0)) /\ FEq(r.y, F(H))
            /\ (call.hx = 2 /\ call.hy = 2) => FEq(r.x, F(W)) /\ FEq(r.y, F(0))
            /\ FEq(FMul(F(4), r.x), F((call.hx + 2) * W))
            /\ FEq(FMul(F(4), r.y), F((2 - call.hy) * H))

\* the bottom left corner of NDC on a screen that is not square
C10_Witness ==
    /\ call.op = "viewportTransform"
    /\ call.hx = -2 /\ call.hy = -2
    /\ call.screenWidth = 3 /\ call.screenHeight = 5
    /\ FEq(call.result.y, F(5))

(***************************************************************************)
(* One clipLine call, a step for each pass through its loop.               *)
(***************************************************************************)
MaxClipIters == 6

Big == 2 ^ 25

ClipCoords == {-1, 0, 1, 2, 3, 5, Big}

\* <<xMin, yMin, xMax, yMax>>: a square, one reaching far out, one of no
\* width, and one with its bounds exchanged
ClipRects == {<<0, 0, 4, 4>>, <<1, 1, Big, Big>>, <<2, 0, 2, 4>>, <<3, 3, 1, 1>>}

ClipLine(x1, y1, x2, y2, r) ==
    /\ clip.op = "idle"
    /\ clip' = clipLineEntry(x1, y1, x2, y2, r[1], r[2], r[3], r[4])
    /\ UNCHANGED <<frameBuffer, depthBuffer, hist, call, transform>>

Looping == clip.op = "clipLine" /\ clip.pc = "loop"

ClipAccept ==
    /\ Looping
    /\ BitOr(clip.code1, clip.code2) = 0
    /\ clip' = [clip EXCEPT !.accept = TRUE, !.pc = "done"]
    /\ UNCHANGED <<frameBuffer, depthBuffer, hist, call, transform>>

ClipReject ==
    /\ Looping
    /\ BitOr(clip.code1, clip.code2) # 0
    /\ BitAnd(clip.code1, clip.code2) # 0
    /\ clip' = [clip EXCEPT !.pc = "done"]
    /\ UNCHANGED <<frameBuffer, depthBuffer, hist, call, transform>>

ClipReplace ==
    /\ Looping
    /\ BitOr(clip.code1, clip.code2) # 0
    /\ BitAnd(clip.code1, clip.code2) = 0
    /\ clip.iters < MaxClipIters
    /\ clip' = clipReplace(clip)
    /\ UNCHANGED <<frameBuffer, depthBuffer, hist, call, transform>>

NextClip ==
    \/ \E x1 \in ClipCoords, y1 \in ClipCoords, x2 \in ClipCoords, y2 \in ClipCoords,
          r \in ClipRects : ClipLine(x1, y1, x2, y2, r)
    \/ ClipAccept
    \/ ClipReject
    \/ ClipReplace

SpecClip == Init /\ [][NextClip]_vars

\* the input endpoint <<x, y>> lies in the rectangle r, bounds included
InRect(x, y, r) == r[1] <= x /\ x <= r[3] /\ r[2] <= y /\ y <= r[4]

BothInside == InRect(clip.in[1], clip.in[2], clip.rect) /\ InRect(clip.in[3], clip.in[4], clip.rect)

\* both input endpoints lie beyond the same side of the rectangle
SameOutside ==
    \/ clip.in[1] < clip.rect[1] /\ clip.in[3] < clip.rect[1]
    \/ clip.in[1] > clip.rect[3] /\ clip.in[3] > clip.rect[3]
    \/ clip.in[2] < clip.rect[2] /\ clip.in[4] < clip.rect[2]
    \/ clip.in[2] > clip.rect[4] /\ clip.in[4] > clip.rect[4]

EndpointsUnchanged ==
    <<clip.x1, clip.y1, clip.x2, clip.y2>>
        = <<F(clip.in[1]), F(clip.in[2]), F(clip.in[3]), F(clip.in[4])>>

ValidRect == clip.rect[1] <= clip.rect[3] /\ clip.rect[2] <= clip.rect[4]

(***************************************************************************)
(* C7: a segment whose endpoints both lie inside the clip rectangle is     *)
(* accepted by clipLine with its endpoints unchanged, and a segment whose  *)
(* endpoints both lie in the same outside half-plane is rejected.          *)
(***************************************************************************)
C7_TrivialCases ==
    clip.op = "clipLine" =>
        /\ BothInside =>
              /\ clip.iters = 0 /\ EndpointsUnchanged
              /\ BitOr(clip.code1, clip.code2) = 0
              /\ clip.pc = "done" => clip.accept
        /\ (clip.pc = "done" /\ SameOutside) => ~clip.accept
        /\ (SameOutside /\ ValidRect) =>
              /\ clip.iters = 0 /\ EndpointsUnchanged
              /\ BitAnd(clip.code1, clip.code2) # 0

\* an accepted segment with both endpoints inside, one of them on the border
C7_Witness ==
    /\ clip.op = "clipLine" /\ clip.pc = "done"
    /\ BothInside /\ clip.accept
    /\ clip.in[1] = clip.rect[1]
    /\ <<clip.in[1], clip.in[2]>> # <<clip.in[3], clip.in[4]>>

(***************************************************************************)
(* C8: for a valid rectangle (xMin <= xMax, yMin <= yMax) the loop of      *)
(* clipLine does at most four replacement iterations.                      *)
(***************************************************************************)
C8_AtMostFour ==
    (clip.op = "clipLine" /\ ValidRect) => clip.iters <= 4

(***************************************************************************)
(* C9: clipLine never divides by zero, for every input segment,            *)
(* horizontal, vertical and single-point segments included.                *)
(***************************************************************************)
C9_NoDivisionByZero ==
    clip.op = "clipLine" => ~clip.divByZero

\* a horizontal segment that was cut at a side of the rectangle
C9_Witness ==
    /\ clip.op = "clipLine" /\ clip.pc = "done"
    /\ clip.in[2] = clip.in[4] /\ clip.in[1] # clip.in[3]
    /\ clip.iters >= 1 /\ clip.accept

(***************************************************************************)
(* One computeBarycentric call.  The vertices and the query point are      *)
(* points of a small integer grid divided by a scale, or the three points  *)
(* of FarLine, which lie on the line y = 3x far from each other.           *)
(***************************************************************************)
BaryGrid == {0, 1, 3}

BaryPoints == BaryGrid \X BaryGrid

\* the coordinates are divided by one of these
BaryScales == {1, 4096}

FarLine == << <<1, 3>>, <<2 ^ 24, 3 * 2 ^ 24>>, <<2 ^ 24 + 4, 3 * 2 ^ 24 + 12>> >>

FarLineScale == 2 ^ 11

\* the float point p / scale
BaryVertex(p, scale) == [x |-> FDiv(F(p[1]), F(scale)), y |-> FDiv(F(p[2]), F(scale))]

\* the record of a computeBarycentric call on integer points over a scale
BarycentricCall(q, tri, scale) ==
    [op |-> "computeBarycentric", q |-> q, tri |-> tri, scale |-> scale,
     divided |-> ~IsDegenerate(BarycentricDenominator(BaryVertex(tri[1], scale),
                                                      BaryVertex(tri[2], scale),
                                                      BaryVertex(tri[3], scale))),
     result |-> computeBarycentric(BaryVertex(q, scale).x, BaryVertex(q, scale).y,
                                   BaryVertex(tri[1], scale), BaryVertex(tri[2], scale),
                                   BaryVertex(tri[3], scale))]

ComputeBarycentric(q, tri, scale) ==
    /\ call.op = "idle"
    /\ call' = BarycentricCall(q, tri, scale)
    /\ UNCHANGED <<frameBuffer, depthBuffer, hist, clip, transform>>

NextBary ==
    \/ \E q \in BaryPoints, a \in BaryPoints, b \in BaryPoints, c \in BaryPoints,
          scale \in BaryScales : ComputeBarycentric(q, <<a, b, c>>, scale)
    \/ \E q \in BaryPoints \cup {FarLine[1], FarLine[2]} :
          ComputeBarycentric(q, FarLine, FarLineScale)

SpecBary == Init /\ [][NextBary]_vars

IsBary == call.op = "computeBarycentric"

\* the three vertices of the call lie on one line (or coincide), decided on
\* the integer coordinates
Collinear ==
    IF call.tri = FarLine THEN \A i \in 1 .. 3 : call.tri[i][2] = 3 * call.tri[i][1]
    ELSE LET a == call.tri[1]
             b == call.tri[2]
             c == call.tri[3]
         IN  (b[2] - c[2]) * (a[1] - c[1]) + (c[1] - b[1]) * (a[2] - c[2]) = 0

\* the weights are (1,0,0), (0,1,0) or (0,0,1) for i = 1, 2, 3
UnitWeights(w, i) ==
    /\ FEq(w.x, F(IF i = 1 THEN 1 ELSE 0))
    /\ FEq(w.y, F(IF i = 2 THEN 1 ELSE 0))
    /\ FEq(w.z, F(IF i = 3 THEN 1 ELSE 0))

AtOwnVertices ==
    \A i \in 1 .. 3 : call.q = call.tri[i] => UnitWeights(call.result, i)

\* the rounding error of the float sum a + b: a + b = FAdd(a, b) + SumError(a, b)
SumErrorOf(a, b, sum, bb) == FAdd(FSub(a, FSub(sum, bb)), FSub(b, bb))

SumErrorIn(a, b, sum) == SumErrorOf(a, b, sum, FSub(sum, a))

SumError(a, b) == SumErrorIn(a, b, FAdd(a, b))

\* 1 - (w.x + w.y + w.z), exactly: the two roundings of w.z = 1 - w.x - w.y
SumDefect(w) ==
    FAdd(SumError(F(1), FNeg(w.x)), SumError(FSub(F(1), w.x), FNeg(w.y)))

EqualThirds(w) == w = Splat(FDiv(F(1), F(3)))

\* 2^-23, the spacing of the floats at 1
Ulp == FDiv(F(1), F(8388608))

(***************************************************************************)
(* C11 as stated: for every non-degenerate triangle computeBarycentric at  *)
(* the first, second, third vertex returns (1,0,0), (0,1,0), (0,0,1), and  *)
(* for every query point the three weights sum to 1.                       *)
(***************************************************************************)
C11_AsStated ==
    (IsBary /\ ~Collinear) => AtOwnVertices /\ IsZero(SumDefect(call.result))

(***************************************************************************)
(* C11 as the code has it: when the computed denominator is at least 1e-6  *)
(* in magnitude the weights at the three vertices are exactly (1,0,0),     *)
(* (0,1,0), (0,0,1) and the weights of every query point sum to 1 up to    *)
(* the two roundings of w3 = 1 - w1 - w2, at most 2^-23 (|1 - w1| + |w3|); *)
(* below 1e-6 the weights are (1/3,1/3,1/3) also for a triangle of         *)
(* non-zero area.                                                          *)
(***************************************************************************)
C11_Barycentric ==
    IsBary =>
        IF call.divided
        THEN /\ AtOwnVertices
             /\ ~FGreater(FAbs(SumDefect(call.result)),
                          FMul(Ulp, FAdd(FAbs(FSub(F(1), call.result.x)),
                                         FAbs(call.result.z))))
        ELSE EqualThirds(call.result)

\* the second vertex of a triangle of non-zero area, with the weights (0,1,0)
C11_Witness ==
    /\ IsBary /\ ~Collinear /\ call.divided
    /\ call.q = call.tri[2] /\ call.q # call.tri[1] /\ call.q # call.tri[3]
    /\ UnitWeights(call.result, 2)

(***************************************************************************)
(* C12 as stated: when the three vertices are collinear or coincident      *)
(* computeBarycentric returns (1/3,1/3,1/3) for every query point and      *)
(* does not divide.                                                        *)
(***************************************************************************)
C12_AsStated ==
    (IsBary /\ Collinear) => EqualThirds(call.result) /\ ~call.divided

(***************************************************************************)
(* C12 as the code has it: when the computed denominator is below 1e-6 in  *)
(* magnitude, which holds for coincident vertices and for collinear        *)
(* vertices whose coordinate differences are exact in float (here: the     *)
(* grid points), computeBarycentric returns (1/3,1/3,1/3) for every query  *)
(* point and does not divide.                                              *)
(***************************************************************************)
C12_Degenerate ==
    IsBary =>
        /\ ~call.divided => EqualThirds(call.result)
        /\ (Collinear /\ call.tri # FarLine) => ~call.divided /\ EqualThirds(call.result)

\* three distinct collinear vertices and a query point off their line
C12_Witness ==
    /\ IsBary /\ Collinear /\ call.tri # FarLine
    /\ call.tri[1] # call.tri[2] /\ call.tri[2] # call.tri[3] /\ call.tri[1] # call.tri[3]
    /\ call.q \notin {call.tri[1], call.tri[2], call.tri[3]}
    /\ EqualThirds(call.result)

(***************************************************************************)
(* Shaders (Renderer.cpp): Blinn-Phong shading on glm::vec3, in binary32.  *)
(* The glm functions are the library's scalar definitions:                 *)
(*   dot(a, b)       = a.x * b.x + a.y * b.y + a.z * b.z                   *)
(*   normalize(v)    = v * inversesqrt(dot(v, v)), inversesqrt = 1 / sqrt  *)
(*   clamp(x, lo, hi) = min(max(x, lo), hi), max(x, y) = (x < y) ? y : x,  *)
(*                      min(x, y) = (y < x) ? y : x                        *)
(***************************************************************************)

\* the square root of m * 4^(-14) bit pair by bit pair, from pair i down to
\* pair -14: <<root, remainder>>
RECURSIVE SqrtLoop(_, _, _, _)
SqrtLoop(root, r, m, i) ==
    IF i < -14 THEN <<root, r>>
    ELSE IF 4 * r + (IF i >= 0 THEN (m \div 4^i) % 4 ELSE 0) >= 4 * root + 1
    THEN SqrtLoop(2 * root + 1,
                  4 * r + (IF i >= 0 THEN (m \div 4^i) % 4 ELSE 0) - (4 * root + 1), m, i - 1)
    ELSE SqrtLoop(2 * root, 4 * r + (IF i >= 0 THEN (m \div 4^i) % 4 ELSE 0), m, i - 1)

\* the float nearest to root rr[1] with remainder rr[2]
SqrtPack(rr, e) == RoundPack(0, rr[1], e, rr[2] # 0)

\* std::sqrt(a)
FSqrt(a) ==
    IF IsNaN(a) THEN NaN
    ELSE IF IsZero(a) THEN a
    ELSE IF a.s = 1 THEN NaN
    ELSE IF a.k = "inf" THEN a
    ELSE SqrtPack(SqrtLoop(0, 0, a.m * (1 + (a.e % 2)), 12), (a.e - (a.e % 2)) \div 2 - 14)

\* std::max(a, b): (a < b) ? b : a
StdMax(a, b) == IF FLess(a, b) THEN b ELSE a

\* glm::min(x, y): (y < x) ? y : x
GlmMin(x, y) == IF FLess(y, x) THEN y ELSE x

\* std::pow(x, y) for the exponents 0, 1 and 2: pow(x, 0) is 1 for every x
Pow(x, y) ==
    IF IsZero(y) THEN F(1)
    ELSE IF IsNaN(x) THEN NaN
    ELSE IF FEq(y, F(1)) THEN x
    ELSE FMul(x, x)

\* glm::vec3(x, y, z)
Vec3(x, y, z) == [x |-> x, y |-> y, z |-> z]

\* a + b, a - b and a * b on glm::vec3, component by component
VAdd(a, b) == Vec3(FAdd(a.x, b.x), FAdd(a.y, b.y), FAdd(a.z, b.z))

VSub(a, b) == Vec3(FSub(a.x, b.x), FSub(a.y, b.y), FSub(a.z, b.z))

VMul(a, b) == Vec3(FMul(a.x, b.x), FMul(a.y, b.y), FMul(a.z, b.z))

\* v * k for a float k
VScale(v, k) == Vec3(FMul(v.x, k), FMul(v.y, k), FMul(v.z, k))

\* glm::dot
dot(a, b) == FAdd(FAdd(FMul(a.x, b.x), FMul(a.y, b.y)), FMul(a.z, b.z))

\* glm::normalize
normalize(v) == VScale(v, FDiv(F(1), FSqrt(dot(v, v))))

\* glm::clamp(x, 0.0f, 1.0f) of one component
clamp(x) == GlmMin(StdMax(x, F(0)), F(1))

calculateAmbient(light, material) == VMul(light.ambient, material.ambient)

\* calculateDiffuse without the std::max
calculateDiffuse_noMax(normal, lightDir, light, material) ==
    VScale(VMul(light.color, material.diffuse), dot(normal, lightDir))

calculateDiffuse(normal, lightDir, light, material) ==
    VScale(VMul(light.color, material.diffuse), StdMax(dot(normal, lightDir), F(0)))

calculateSpecular(normal, lightDir, viewDir, light, material) ==
    VScale(VMul(light.color, material.specular),
           Pow(StdMax(dot(normal, normalize(VAdd(lightDir, viewDir))), F(0)),
               material.shininess))

\* vec3ToColor: a channel whose cast is undefined is Indeterminate
vec3ToColor(color) ==
    Color(ToUint8(FMul(color.x, F(255))), ToUint8(FMul(color.y, F(255))),
          ToUint8(FMul(color.z, F(255))))

\* glm::clamp(finalColor, 0.0f, 1.0f)
clampColor(c) == Vec3(clamp(c.x), clamp(c.y), clamp(c.z))

\* the shading of both compute functions from the three unit vectors on
ShadeFrom(norm, lightDir, viewDir, light, material) ==
    vec3ToColor(clampColor(VAdd(VAdd(calculateAmbient(light, material),
                                     calculateDiffuse(norm, lightDir, light, material)),
                                calculateSpecular(norm, lightDir, viewDir, light, material))))

computeGouraudShading(vertexPos, normal, viewPos, light, material) ==
    ShadeFrom(normalize(normal), normalize(VSub(light.position, vertexPos)),
              normalize(VSub(viewPos, vertexPos)), light, material)

computePhongShading(fragPos, normal, viewPos, light, material) ==
    ShadeFrom(normalize(normal), normalize(VSub(light.position, fragPos)),
              normalize(VSub(viewPos, fragPos)), light, material)

(***************************************************************************)
(* One shading call.  Positions, normals and view points are integer       *)
(* vectors; the zero normal, the light's own position and a view point     *)
(* opposite to the light are among them.  Colours are fractions.           *)
(***************************************************************************)
\* the vec3 of an integer triple
IntVec(p) == Vec3(F(p[1]), F(p[2]), F(p[3]))

\* the vec3 of three fractions <<numerator, denominator>>
Fractions(a, b, c) ==
    Vec3(FDiv(F(a[1]), F(a[2])), FDiv(F(b[1]), F(b[2])), FDiv(F(c[1]), F(c[2])))

\* the vec3 whose three components are n / d
Grey(n, d) == Splat(FDiv(F(n), F(d)))

ShadePositions == {<<0, 0, 0>>, <<0, 5, 5>>, <<1, 0, 2>>}

ShadeNormals == {<<0, 0, 1>>, <<0, 0, -1>>, <<0, 0, 0>>, <<1, 2, 2>>, <<0, 1, 0>>}

ViewPoints == {<<0, 0, 5>>, <<0, -5, -5>>, <<3, 0, 0>>}

\* Light(): position (0,5,5), colour (1,1,1), ambient (0.2,0.2,0.2); and a
\* coloured light behind the origin
Lights ==
    << [position |-> IntVec(<<0, 5, 5>>), color |-> Grey(1, 1), ambient |-> Grey(1, 5)],
       [position |-> IntVec(<<0, 0, -3>>),
        color |-> Fractions(<<2, 1>>, <<1, 2>>, <<0, 1>>),
        ambient |-> Fractions(<<1, 2>>, <<0, 1>>, <<1, 1>>)] >>

\* the colours of Material() with the shininess exponents 1, 2 and 0
Materials ==
    << [ambient |-> Grey(1, 5), diffuse |-> Grey(4, 5), specular |-> Grey(1, 1),
        shininess |-> F(1)],
       [ambient |-> Grey(1, 1), diffuse |-> Fractions(<<1, 10>>, <<1, 1>>, <<3, 1>>),
        specular |-> Grey(1, 2), shininess |-> F(2)],
       [ambient |-> Grey(1, 5), diffuse |-> Grey(4, 5), specular |-> Grey(1, 1),
        shininess |-> F(0)] >>

\* the terms of a shading call from the three unit vectors on, and its result
ShadingTerms(op, in, result, norm, lightDir, viewDir, light, material) ==
    [op |-> op, in |-> in, result |-> result, undefined |-> FALSE,
     NL |-> dot(norm, lightDir),
     NH |-> dot(norm, normalize(VAdd(lightDir, viewDir))),
     ambient |-> calculateAmbient(light, material),
     diffuse |-> calculateDiffuse(norm, lightDir, light, material),
     specular |-> calculateSpecular(norm, lightDir, viewDir, light, material)]

\* the record of a shading call; in = <<position, normal, view point, number
\* of the light, number of the material>>
ShadingCall(op, in, result) ==
    ShadingTerms(op, in, result, normalize(IntVec(in[2])),
                 normalize(VSub(Lights[in[4]].position, IntVec(in[1]))),
                 normalize(VSub(IntVec(in[3]), IntVec(in[1]))),
                 Lights[in[4]], Materials[in[5]])

ShadeInputs ==
    ShadePositions \X ShadeNormals \X ViewPoints \X (1 .. Len(Lights)) \X (1 .. Len(Materials))

\* the values a cast with undefined behaviour can leave in a byte
UndefinedBytes == 0 .. 255

\* the channel c, or u when the cast that made it is undefined
Cast(c, u) == IF c = Indeterminate THEN u ELSE c

HasUndefinedCast(c) == Indeterminate \in {c.result.r, c.result.g, c.result.b}

\* the call whose undefined casts, if any, gave u
Resolved(c, u) ==
    [c EXCEPT !.result = Color(Cast(c.result.r, u), Cast(c.result.g, u), Cast(c.result.b, u)),
              !.undefined = HasUndefinedCast(c)]

ShadeWith(c) ==
    \E u \in (IF HasUndefinedCast(c) THEN UndefinedBytes ELSE {0}) :
        call' = Resolved(c, u)

ComputeGouraudShading(in) ==
    /\ call.op = "idle"
    /\ ShadeWith(ShadingCall("computeGouraudShading", in,
                    computeGouraudShading(IntVec(in[1]), IntVec(in[2]), IntVec(in[3]),
                                          Lights[in[4]], Materials[in[5]])))
    /\ UNCHANGED <<frameBuffer, depthBuffer, hist, clip, transform>>

ComputePhongShading(in) ==
    /\ call.op = "idle"
    /\ ShadeWith(ShadingCall("computePhongShading", in,
                    computePhongShading(IntVec(in[1]), IntVec(in[2]), IntVec(in[3]),
                                        Lights[in[4]], Materials[in[5]])))
    /\ UNCHANGED <<frameBuffer, depthBuffer, hist, clip, transform>>

NextShade ==
    \/ \E in \in ShadeInputs : ComputeGouraudShading(in)
    \/ \E in \in ShadeInputs : ComputePhongShading(in)

SpecShade == Init /\ [][NextShade]_vars

IsShade == call.op \in {"computeGouraudShading", "computePhongShading"}

\* every component of v is a zero
IsZeroVec(v) == IsZero(v.x) /\ IsZero(v.y) /\ IsZero(v.z)

\* a <= 0
NotPositive(a) == ~IsNaN(a) /\ ~FGreater(a, F(0))

(***************************************************************************)
(* C13: whenever dot(N, L) <= 0 the diffuse term is exactly 0 in every     *)
(* channel, for every light colour and material.                           *)
(***************************************************************************)
C13_DiffuseZero == (IsShade /\ NotPositive(call.NL)) => IsZeroVec(call.diffuse)

\* a surface facing away from a light whose colour times the material's
\* diffuse colour is not zero
C13_Witness ==
    /\ IsShade /\ FLess(call.NL, F(0)) /\ IsZeroVec(call.diffuse)
    /\ ~IsZero(FMul(Lights[call.in[4]].color.x, Materials[call.in[5]].diffuse.x))

(***************************************************************************)
(* C14: whenever dot(N, H) <= 0 the specular term is exactly 0 in every    *)
(* channel, for every light colour, material and shininess exponent,       *)
(* the exponent 0 included.                                                *)
(***************************************************************************)
C14_SpecularZero == (IsShade /\ NotPositive(call.NH)) => IsZeroVec(call.specular)

\* the same for the exponents other than 0
SpecularZeroAbove0 ==
    (IsShade /\ NotPositive(call.NH) /\ ~IsZero(Materials[call.in[5]].shininess))
        => IsZeroVec(call.specular)

\* the channel ch is the truncation of 255 times the clamped sum, one of
\* 0 .. 255 and not below the truncation of 255 times the clamped ambient term
ChannelAsClaimed(ch, sum, ambient) ==
    /\ ch \in 0 .. 255
    /\ IsFinite(sum) => ch = Trunc(FMul(clamp(sum), F(255)))
    /\ IsFinite(ambient) => ch >= Trunc(FMul(clamp(ambient), F(255)))

ColorAsClaimed(result, sum, ambient) ==
    /\ result.a = 255
    /\ ChannelAsClaimed(result.r, sum.x, ambient.x)
    /\ ChannelAsClaimed(result.g, sum.y, ambient.y)
    /\ ChannelAsClaimed(result.b, sum.z, ambient.z)

(***************************************************************************)
(* C15: both shading functions return alpha 255 and per channel the        *)
(* truncation of 255 times clamp(ambient + diffuse + specular, 0, 1), in   *)
(* 0 .. 255 and never below the value of the ambient term alone, whatever  *)
(* the position, the normal and the view point.                            *)
(***************************************************************************)
C15_ShadedColor ==
    IsShade => ColorAsClaimed(call.result,
                              VAdd(VAdd(call.ambient, call.diffuse), call.specular),
                              call.ambient)

\* the same for the calls whose three normalisations are defined
ShadedColorWhenDefined ==
    (IsShade /\ ~call.undefined)
        => ColorAsClaimed(call.result,
                          VAdd(VAdd(call.ambient, call.diffuse), call.specular),
                          call.ambient)

(***************************************************************************)
(* The matrices of a Transform and its matrix stack.  A glm::mat4 is its   *)
(* four columns; glm::translate(m, v) and glm::scale(m, v) are the         *)
(* library's definitions:                                                  *)
(*   translate: Result = m, Result[3] = m[0]*v.x + m[1]*v.y + m[2]*v.z     *)
(*                                      + m[3]                             *)
(*   scale:     Result[i] = m[i] * v[i] for i < 3, Result[3] = m[3]        *)
(***************************************************************************)
\* a column times a float, and the sum of two columns
ColScale(c, k) == [i \in 1 .. 4 |-> FMul(c[i], k)]

ColAdd(a, b) == [i \in 1 .. 4 |-> FAdd(a[i], b[i])]

createTranslationMatrix(x, y, z) ==
    [Identity EXCEPT ![4] = ColAdd(ColAdd(ColAdd(ColScale(Identity[1], F(x)),
                                                 ColScale(Identity[2], F(y))),
                                          ColScale(Identity[3], F(z))), Identity[4])]

createScaleMatrix(sx, sy, sz) ==
    << ColScale(Identity[1], F(sx)), ColScale(Identity[2], F(sy)),
       ColScale(Identity[3], F(sz)), Identity[4] >>

setModelMatrix(t, model) == [t EXCEPT !.modelMatrix = model]

setViewMatrix(t, view) == [t EXCEPT !.viewMatrix = view]

setProjectionMatrix(t, projection) == [t EXCEPT !.projectionMatrix = projection]

pushMatrix(t) == [t EXCEPT !.matrixStack = Append(t.matrixStack, t.modelMatrix)]

\* popMatrix that resets the model matrix when the stack is empty
popMatrix_reset(t) ==
    IF t.matrixStack = <<>> THEN [t EXCEPT !.modelMatrix = Identity]
    ELSE [t EXCEPT !.modelMatrix = t.matrixStack[Len(t.matrixStack)],
                   !.matrixStack = SubSeq(t.matrixStack, 1, Len(t.matrixStack) - 1)]

\* popMatrix that takes the oldest entry of the stack
popMatrix_front(t) ==
    IF t.matrixStack = <<>> THEN t
    ELSE [t EXCEPT !.modelMatrix = t.matrixStack[1],
                   !.matrixStack = Tail(t.matrixStack)]

popMatrix(t) ==
    IF t.matrixStack = <<>> THEN t
    ELSE [t EXCEPT !.modelMatrix = t.matrixStack[Len(t.matrixStack)],
                   !.matrixStack = SubSeq(t.matrixStack, 1, Len(t.matrixStack) - 1)]

\* the length of a sequence of Transform calls, and the depth of the stack
MaxCalls == 5

MaxDepth == 3

ModelMatrices == {createTranslationMatrix(1, 2, 3), createScaleMatrix(2, 2, 2)}

ViewMatrices == {createTranslationMatrix(0, 0, -5)}

ProjectionMatrices == {createScaleMatrix(1, 1, -1)}

\* one call of a Transform: it is recorded in hist with the model matrix it
\* found
TransformStep(name, t) ==
    /\ transform' = t
    /\ hist' = Append(hist, [op |-> name, model |-> transform.modelMatrix])
    /\ UNCHANGED <<frameBuffer, depthBuffer, clip, call>>

SetModelMatrix(model) ==
    /\ Len(hist) < MaxCalls
    /\ TransformStep("setModelMatrix", setModelMatrix(transform, model))

SetViewMatrix(view) ==
    /\ Len(hist) < MaxCalls
    /\ TransformStep("setViewMatrix", setViewMatrix(transform, view))

SetProjectionMatrix(projection) ==
    /\ Len(hist) < MaxCalls
    /\ TransformStep("setProjectionMatrix", setProjectionMatrix(transform, projection))

PushMatrix ==
    /\ Len(hist) < MaxCalls
    /\ Len(transform.matrixStack) < MaxDepth
    /\ TransformStep("pushMatrix", pushMatrix(transform))

PopMatrix ==
    /\ Len(hist) < MaxCalls
    /\ TransformStep("popMatrix", popMatrix(transform))

NextStack ==
    \/ \E model \in ModelMatrices : SetModelMatrix(model)
    \/ \E view \in ViewMatrices : SetViewMatrix(view)
    \/ \E projection \in ProjectionMatrices : SetProjectionMatrix(projection)
    \/ PushMatrix
    \/ PopMatrix

SpecStack == Init /\ [][NextStack]_vars

\* the model matrices of the pushes of h that no later pop of h has taken,
\* oldest first
RECURSIVE Unpopped(_)
Unpopped(h) ==
    IF h = <<>> THEN <<>>
    ELSE LET before == Unpopped(SubSeq(h, 1, Len(h) - 1))
             last == h[Len(h)]
         IN  IF last.op = "pushMatrix" THEN Append(before, last.model)
             ELSE IF last.op = "popMatrix" /\ before # <<>>
                  THEN SubSeq(before, 1, Len(before) - 1)
             ELSE before

\* this step is a call of popMatrix / pushMatrix
Popping == hist' # hist /\ hist'[Len(hist')].op = "popMatrix"

Pushing == hist' # hist /\ hist'[Len(hist')].op = "pushMatrix"

(***************************************************************************)
(* C16: popMatrix on an empty matrix stack changes nothing: the model,     *)
(* view and projection matrices and the stack stay as they are, however    *)
(* often the call is repeated.                                             *)
(***************************************************************************)
C16_PopEmpty ==
    [][(Popping /\ Unpopped(hist) = <<>>) => transform' = transform]_vars

\* three popMatrix calls in a row on an empty stack, after the matrices
\* were set, have left the matrices and the stack as they were
C16_Witness ==
    /\ Len(hist) = MaxCalls
    /\ \A i \in 3 .. MaxCalls : hist[i].op = "popMatrix"
    /\ \A i \in 1 .. 2 : hist[i].op \in {"setModelMatrix", "setViewMatrix"}
    /\ transform.matrixStack = <<>>
    /\ transform.modelMatrix # Identity
    /\ transform.viewMatrix # Identity

(***************************************************************************)
(* C17: the matrix stack is last in, first out: popMatrix on a non-empty   *)
(* stack sets the model matrix to the value it had at the most recent      *)
(* push not yet popped and shortens the stack by one; pushMatrix lengthens *)
(* the stack by one and leaves the model matrix as it is.                  *)
(***************************************************************************)
C17_StackLifo ==
    [][/\ (Popping /\ Unpopped(hist) # <<>>) =>
            /\ transform'.modelMatrix = Unpopped(hist)[Len(Unpopped(hist))]
            /\ Len(transform'.matrixStack) = Len(transform.matrixStack) - 1
       /\ Pushing =>
            /\ Len(transform'.matrixStack) = Len(transform.matrixStack) + 1
            /\ transform'.modelMatrix = transform.modelMatrix
       /\ Len(transform.matrixStack) = Len(Unpopped(hist))]_vars

\* two pushes of different model matrices, a third model matrix set, and a
\* pop that brought back the second
C17_Witness ==
    /\ Len(hist) = MaxCalls
    /\ hist[2].op = "pushMatrix" /\ hist[4].op = "pushMatrix"
    /\ hist[5].op = "popMatrix"
    /\ hist[2].model # hist[4].model
    /\ transform.modelMatrix = hist[4].model
    /\ Len(transform.matrixStack) = 1

(***************************************************************************)
(* One drawTriangle call with either value of useGouraud, on buffers as    *)
(* constructed or just cleared.  The vertices have their own colours and   *)
(* depths; three of them lie on the scanline y = 0.                        *)
(***************************************************************************)
Blue == Color(0, 0, 255)

ShadedVertices ==
    { Vertex(F(0), F(0), Near, Red), Vertex(F(2), F(0), Far, Blue),
      Vertex(F(4), F(0), Near, Green), Vertex(F(0), F(3), Far, Blue),
      Vertex(F(3), F(4), Near, Green), Vertex(F(1), F(2), Far, Red) }

ShadedClear(clearColor) ==
    /\ hist = <<>>
    /\ Step(clearBuffers(Buffers, clearColor),
            [op |-> "clearBuffers", clearColor |-> clearColor])

ShadedDraw(v1, v2, v3, useGouraud) ==
    /\ Fresh
    /\ Step(drawTriangle(Buffers, v1, v2, v3, useGouraud),
            [op |-> "drawTriangle", v1 |-> v1, v2 |-> v2, v3 |-> v3,
             useGouraud |-> useGouraud])

NextShaded ==
    \/ \E c \in ClearColors : ShadedClear(c)
    \/ \E v1 \in ShadedVertices, v2 \in ShadedVertices, v3 \in ShadedVertices,
          useGouraud \in BOOLEAN : ShadedDraw(v1, v2, v3, useGouraud)

SpecShaded == Init /\ [][NextShaded]_vars

\* the three vertices of call e have the same y
SameY(e) ==
    /\ FEq(e.v1.position.y, e.v2.position.y)
    /\ FEq(e.v2.position.y, e.v3.position.y)

DrewTriangle == hist # <<>> /\ Last.op = "drawTriangle"

(***************************************************************************)
(* C18: drawTriangle on three vertices of the same y is a no-op: it makes  *)
(* no setPixelWithDepth call and leaves both buffers as they are.          *)
(***************************************************************************)
C18_FlatNoOp ==
    [][(IsCall /\ Last'.op = "drawTriangle" /\ SameY(Last')) =>
          /\ drawTriangleCalls(Last'.v1, Last'.v2, Last'.v3, Last'.useGouraud) = <<>>
          /\ frameBuffer' = frameBuffer
          /\ depthBuffer' = depthBuffer]_vars

\* three distinct in-bounds vertices on one scanline, nearer than the
\* cleared buffer, were drawn
C18_Witness ==
    /\ DrewTriangle /\ SameY(Last) /\ Len(hist) = 2
    /\ Last.v1 # Last.v2 /\ Last.v2 # Last.v3 /\ Last.v1 # Last.v3
    /\ \A p \in Pixels : PixelAt(Buffers, p[1], p[2]) = RGB(hist[1].clearColor)

Quarters == -1 .. 3

\* std::cos and std::sin of q quarter turns
Cos ==
    [q \in Quarters |->
        CASE q = 0 -> F(1)
          [] q = 2 -> F(-1)
          [] q = 3 -> Fin(0, 13426222, -50)
          [] OTHER -> Fin(1, 12303662, -48)]

Sin ==
    [q \in Quarters |->
        CASE q = 0 -> F(0)
          [] q = 1 -> F(1)
          [] q = 2 -> Fin(1, 12303662, -47)
          [] OTHER -> F(-1)]

\* the three columns of Rotate for cosine c, sine s, the unit vector axis
\* and temp = (1 - c) * axis
RotateOf(c, s, axis, temp) ==
    << << FAdd(c, FMul(temp.x, axis.x)),
          FAdd(FMul(temp.x, axis.y), FMul(s, axis.z)),
          FSub(FMul(temp.x, axis.z), FMul(s, axis.y)) >>,
       << FSub(FMul(temp.y, axis.x), FMul(s, axis.z)),
          FAdd(c, FMul(temp.y, axis.y)),
          FAdd(FMul(temp.y, axis.z), FMul(s, axis.x)) >>,
       << FAdd(FMul(temp.z, axis.x), FMul(s, axis.y)),
          FSub(FMul(temp.z, axis.y), FMul(s, axis.x)),
          FAdd(c, FMul(temp.z, axis.z)) >> >>

\* m * Rotate
TimesRotate(m, Rotate) ==
    << ColAdd(ColAdd(ColScale(m[1], Rotate[1][1]), ColScale(m[2], Rotate[1][2])),
              ColScale(m[3], Rotate[1][3])),
       ColAdd(ColAdd(ColScale(m[1], Rotate[2][1]), ColScale(m[2], Rotate[2][2])),
              ColScale(m[3], Rotate[2][3])),
       ColAdd(ColAdd(ColScale(m[1], Rotate[3][1]), ColScale(m[2], Rotate[3][2])),
              ColScale(m[3], Rotate[3][3])),
       m[4] >>

\* glm::rotate(m, angle, v) from the unit vector axis on
RotateAbout(m, q, axis) ==
    TimesRotate(m, RotateOf(Cos[q], Sin[q], axis, VScale(axis, FSub(F(1), Cos[q]))))

\* glm::rotate(m, angle, v) for an angle of q quarter turns
rotate(m, q, v) == RotateAbout(m, q, normalize(v))

XAxis == Vec3(F(1), F(0), F(0))

YAxis == Vec3(F(0), F(1), F(0))

ZAxis == Vec3(F(0), F(0), F(1))

\* the part of createRotationMatrix for one axis
RotateIf(rotationMatrix, q, v) ==
    IF q # 0 THEN rotate(rotationMatrix, q, v) ELSE rotationMatrix

createRotationMatrix(angleX, angleY, angleZ) ==
    RotateIf(RotateIf(RotateIf(Identity, angleX, XAxis), angleY, YAxis), angleZ, ZAxis)

CreateRotationMatrix(angleX, angleY, angleZ) ==
    /\ call.op = "idle"
    /\ call' = [op |-> "createRotationMatrix", angleX |-> angleX, angleY |-> angleY,
                angleZ |-> angleZ,
                result |-> createRotationMatrix(angleX, angleY, angleZ)]
    /\ UNCHANGED <<frameBuffer, depthBuffer, hist, clip, transform>>

NextRotate ==
    \E angleX \in Quarters, angleY \in Quarters, angleZ \in Quarters :
        CreateRotationMatrix(angleX, angleY, angleZ)

SpecRotate == Init /\ [][NextRotate]_vars

\* the product a * b of two matrices
Times(a, b) ==
    [j \in 1 .. 4 |->
        ColAdd(ColAdd(ColAdd(ColScale(a[1], b[j][1]), ColScale(a[2], b[j][2])),
                      ColScale(a[3], b[j][3])), ColScale(a[4], b[j][4]))]

\* the rotations about one axis
Rx(q) == rotate(Identity, q, XAxis)

Ry(q) == rotate(Identity, q, YAxis)

Rz(q) == rotate(Identity, q, ZAxis)

\* every entry of a is within 1/1000 of the entry of b
Close(a, b) ==
    \A j \in 1 .. 4, i \in 1 .. 4 :
        ~FGreater(FAbs(FSub(a[j][i], b[j][i])), FDiv(F(1), F(1000)))

IsRotation == call.op = "createRotationMatrix"

(***************************************************************************)
(* C20: createRotationMatrix(ax, ay, az) is Rz(az) * Ry(ay) * Rx(ax): on a *)
(* vector the X rotation acts first, then Y, then Z (compared on quarter   *)
(* turns, up to rounding).                                                 *)
(***************************************************************************)
C20_RotationOrder ==
    IsRotation =>
        Close(call.result, Times(Times(Rz(call.angleZ), Ry(call.angleY)), Rx(call.angleX)))

\* what the code returns: Rx(ax) * Ry(ay) * Rz(az), the Z rotation acts first
RotationIsXYZ ==
    IsRotation =>
        Close(call.result, Times(Times(Rx(call.angleX), Ry(call.angleY)), Rz(call.angleZ)))

(***************************************************************************)
(* The pixels that drawTriangle offers to the depth test, against the      *)
(* triangle it was given.                                                  *)
(***************************************************************************)
\* the setPixelWithDepth calls of the drawTriangle call e
CallsOf(e) == drawTriangleCalls(e.v1, e.v2, e.v3, e.useGouraud)

\* the step is a drawTriangle call, recorded as Last'
DrawsTriangle == IsCall /\ Last'.op = "drawTriangle"

\* the arguments that setPixelWithDepth gets for the pixel of call c when
\* depth and colour are blended from the vertices a, b, d with the weights
\* of the pixel against a, b, d
BlendOf(c, a, b, d) ==
    Shade(c.x, c.y, a, b, d,
          computeBarycentric(F(c.x), F(c.y), a.position, b.position, d.position))

\* the orders in which three vertices can be taken
Orders == {<<1, 2, 3>>, <<1, 3, 2>>, <<2, 1, 3>>, <<2, 3, 1>>, <<3, 1, 2>>, <<3, 2, 1>>}

\* call c writes the blend of the three vertices of e, taken in some order
BlendsOriginal(c, e) ==
    \E o \in Orders :
        c = BlendOf(c, <<e.v1, e.v2, e.v3>>[o[1]], <<e.v1, e.v2, e.v3>>[o[2]],
                    <<e.v1, e.v2, e.v3>>[o[3]])

(***************************************************************************)
(* C21: for every pixel that drawTriangle offers to the depth test, also   *)
(* in a triangle that is split, the weights are those of the pixel against *)
(* the three vertices of the original triangle: the depth and the colour   *)
(* offered are the blend of the three original depths and colours, each    *)
(* colour channel truncated.                                               *)
(***************************************************************************)
C21_OriginalWeights ==
    [][DrawsTriangle =>
          \A i \in 1 .. Len(CallsOf(Last')) : BlendsOriginal(CallsOf(Last')[i], Last')]_vars

(***************************************************************************)
(* clipLine against geometric clipping: segments between the points of a   *)
(* small grid and rectangles with xMin <= xMax and yMin <= yMax.           *)
(***************************************************************************)
GeoCoords == {-4, -1, 0, 2, 4, 5, 9}

GeoRects == {<<0, 0, 4, 4>>, <<2, 0, 2, 4>>}

NextGeo ==
    \/ \E x1 \in GeoCoords, y1 \in GeoCoords, x2 \in GeoCoords, y2 \in GeoCoords,
          r \in GeoRects : ClipLine(x1, y1, x2, y2, r)
    \/ ClipAccept
    \/ ClipReject
    \/ ClipReplace

SpecGeo == Init /\ [][NextGeo]_vars

\* the segment in = <<x1, y1, x2, y2>> has a point in the closed rectangle r.
\* A segment that meets the rectangle meets it at a parameter k / n with
\* n = |dx| * |dy| (a factor 0 replaced by 1), so these points are tried
SegmentMeets(in, r, dx, dy, n) ==
    \E k \in 0 .. n :
        /\ r[1] * n <= in[1] * n + dx * k /\ in[1] * n + dx * k <= r[3] * n
        /\ r[2] * n <= in[2] * n + dy * k /\ in[2] * n + dy * k <= r[4] * n

Meets(in, r) ==
    SegmentMeets(in, r, in[3] - in[1], in[4] - in[2],
                 (IF in[3] = in[1] THEN 1 ELSE Abs(in[3] - in[1]))
                     * (IF in[4] = in[2] THEN 1 ELSE Abs(in[4] - in[2])))

\* the float point (x, y) lies in the closed rectangle r
InClosedRect(x, y, r) ==
    /\ ~FLess(x, F(r[1])) /\ ~FGreater(x, F(r[3]))
    /\ ~FLess(y, F(r[2])) /\ ~FGreater(y, F(r[4]))

\* a is between the integers p and q, bounds included
Between(a, p, q) ==
    /\ ~FLess(a, F(IF p < q THEN p ELSE q))
    /\ ~FGreater(a, F(IF p < q THEN q ELSE p))

\* the float point (x, y) lies on the segment in, up to 1/1000 across it
OnSegment(x, y, in) ==
    /\ Between(x, in[1], in[3])
    /\ Between(y, in[2], in[4])
    /\ ~FGreater(FAbs(FSub(FMul(FSub(x, F(in[1])), F(in[4] - in[2])),
                           FMul(FSub(y, F(in[2])), F(in[3] - in[1])))),
                 FDiv(F(1), F(1000)))

ClipDone == clip.op = "clipLine" /\ clip.pc = "done"

OutputsClipped ==
    /\ InClosedRect(clip.x1, clip.y1, clip.rect)
    /\ InClosedRect(clip.x2, clip.y2, clip.rect)
    /\ OnSegment(clip.x1, clip.y1, clip.in)
    /\ OnSegment(clip.x2, clip.y2, clip.in)

(***************************************************************************)
(* C22: for a rectangle with xMin <= xMax and yMin <= yMax clipLine        *)
(* returns true exactly when the segment has a point in the closed         *)
(* rectangle, and then both output endpoints lie in the closed rectangle   *)
(* and on the original segment (here: up to 1/1000 across it).             *)
(***************************************************************************)
C22_Geometric ==
    ClipDone => /\ clip.accept <=> Meets(clip.in, clip.rect)
                /\ clip.accept => OutputsClipped

\* what holds of the code: a segment it accepts meets the rectangle and is
\* clipped to it; every call on these segments returns
AcceptedIsClipped ==
    /\ (ClipDone /\ clip.accept) => Meets(clip.in, clip.rect) /\ OutputsClipped
    /\ clip.op = "clipLine" => clip.iters <= 4

(***************************************************************************)
(* The pixels of a line against the ideal line through its endpoints.      *)
(***************************************************************************)
Max(a, b) == IF a < b THEN b ELSE a

\* the coordinate of p along the major axis of the line e
Major(p, e) ==
    IF Abs(e.y2 - e.y1) < Abs(e.x2 - e.x1) THEN p[1] ELSE p[2]

\* twice the distance of p from the ideal line, in units of pixels times the
\* length of the major axis
Deviation(p, e) ==
    Abs(2 * (e.x2 - e.x1) * (p[2] - e.y1) - 2 * (e.y2 - e.y1) * (p[1] - e.x1))

Steps(e) == Max(Abs(e.x2 - e.x1), Abs(e.y2 - e.y1))

OnePerStep(calls, e) ==
    /\ Len(calls) = Steps(e) + 1
    /\ \A i \in 1 .. Len(calls) :
           Major(calls[i], e) = Major(calls[1], e) + (i - 1)
    /\ <<e.x1, e.y1>> \in Touched(calls)
    /\ <<e.x2, e.y2>> \in Touched(calls)
    /\ \A i \in 1 .. Len(calls) : Deviation(calls[i], e) <= Steps(e)

(***************************************************************************)
(* C23: draw_line touches exactly one pixel per integer step of the major  *)
(* axis, max(|dx|,|dy|) + 1 pixels with both endpoints among them, and     *)
(* every touched (x, y) is within half a pixel of the ideal line:          *)
(* |2 dx (y - y1) - 2 dy (x - x1)| <= max(|dx|,|dy|).                      *)
(***************************************************************************)
C23_LinePixels ==
    [][(IsCall /\ Last'.op = "draw_line") =>
         OnePerStep(draw_lineCalls(Last'.x1, Last'.y1, Last'.x2, Last'.y2), Last')]_vars

\* a sloped line given right to left with a pixel exactly half way between
\* two rows, of which the pixels on the screen are drawn
C23_Witness ==
    /\ hist # <<>>
    /\ Last.op = "draw_line"
    /\ Last.x1 > Last.x2 /\ Last.y1 < Last.y2
    /\ \E p \in Touched(draw_lineCalls(Last.x1, Last.y1, Last.x2, Last.y2)) :
           /\ Deviation(p, Last) = Steps(Last)
           /\ isInBounds(p[1], p[2])
           /\ PixelAt(Buffers, p[1], p[2]) = RGB(Last.color)

(***************************************************************************)
(* The depths offered to the depth test since the last clear.              *)
(***************************************************************************)
\* the index in h of the last clearBuffers, 0 for none since construction
LastClear(h) ==
    LET clears == {i \in 1 .. Len(h) : h[i].op = "clearBuffers"}
    IN  IF clears = {} THEN 0
        ELSE CHOOSE i \in clears : \A j \in clears : j <= i

\* the depths that call e passes to setPixelWithDepth at pixel p
Offered(e, p) ==
    CASE e.op = "setPixelWithDepth" ->
            IF <<e.x, e.y>> = p THEN {e.depth} ELSE {}
      [] e.op = "drawTriangle" ->
            LET calls == FillOf[e.t][e.useGouraud]
            IN  {calls[i].depth : i \in {j \in 1 .. Len(calls) :
                                            <<calls[j].x, calls[j].y>> = p}}
      [] OTHER -> {}

OfferedSince(h, p) ==
    UNION {Offered(h[i], p) : i \in (LastClear(h) + 1) .. Len(h)}

\* the smallest of 1.0 and the depths of S
MinDepth(S) ==
    CHOOSE d \in S \cup {FarDepth} : \A o \in S \cup {FarDepth} : ~FLess(o, d)

(***************************************************************************)
(* C24: between two clearBuffers calls each depth cell equals the minimum  *)
(* of 1.0 and all depths offered to setPixelWithDepth at that pixel since  *)
(* the last clear; a cell never increases and never exceeds 1.0.           *)
(***************************************************************************)
C24_DepthIsMinimum ==
    [][IsCall =>
         \A p \in Pixels :
             /\ DepthAt(BuffersAfter, p[1], p[2]) = MinDepth(OfferedSince(hist', p))
             /\ ~FGreater(DepthAt(BuffersAfter, p[1], p[2]), FarDepth)
             /\ Last'.op # "clearBuffers" =>
                    ~FGreater(DepthAt(BuffersAfter, p[1], p[2]),
                              DepthAt(Buffers, p[1], p[2]))]_vars

\* a pixel offered a depth by a filled triangle and then a larger one, or
\* one beyond 1.0, by setPixelWithDepth: the cell keeps the smaller depth
C24_Witness ==
    /\ Len(hist) = 2
    /\ hist[1].op = "drawTriangle" /\ hist[2].op = "setPixelWithDepth"
    /\ <<hist[2].x, hist[2].y>> \in CoverOf[hist[1].t]
    /\ FGreater(hist[2].depth, DepthAt(Buffers, hist[2].x, hist[2].y))
    /\ FLess(DepthAt(Buffers, hist[2].x, hist[2].y), FarDepth)

(***************************************************************************)
(* C25: drawTriangle changes a pixel only where it passes the depth test:  *)
(* after the call each pixel is unchanged in colour and depth or its       *)
(* stored depth is strictly smaller than before, and a triangle whose      *)
(* vertices all have a depth that no pixel's stored depth exceeds (depth   *)
(* 1.0 on a fresh buffer) changes nothing.                                 *)
(***************************************************************************)
NotCloser(t) ==
    \A z \in {Triangles[t].v1.position.z, Triangles[t].v2.position.z,
              Triangles[t].v3.position.z} :
        \A p \in Pixels : ~FLess(z, DepthAt(Buffers, p[1], p[2]))

C25_OnlyCloser ==
    [][DrawsTriangle =>
         /\ \A p \in Pixels :
                \/ /\ PixelAt(BuffersAfter, p[1], p[2]) = PixelAt(Buffers, p[1], p[2])
                   /\ DepthAt(BuffersAfter, p[1], p[2]) = DepthAt(Buffers, p[1], p[2])
                \/ FLess(DepthAt(BuffersAfter, p[1], p[2]), DepthAt(Buffers, p[1], p[2]))
         /\ NotCloser(Last'.t) =>
                (frameBuffer' = frameBuffer /\ depthBuffer' = depthBuffer)]_vars

\* what holds of the code: a pixel that drawTriangle changes has a smaller
\* stored depth afterwards
ChangedIsCloser ==
    [][DrawsTriangle =>
         \A p \in Pixels :
             \/ /\ PixelAt(BuffersAfter, p[1], p[2]) = PixelAt(Buffers, p[1], p[2])
                /\ DepthAt(BuffersAfter, p[1], p[2]) = DepthAt(Buffers, p[1], p[2])
             \/ FLess(DepthAt(BuffersAfter, p[1], p[2]), DepthAt(Buffers, p[1], p[2]))]_vars

\* the buffers after drawTriangle on the vertices of call e taken in order o
Reordered(e, o) ==
    drawTriangle(Buffers, <<e.v1, e.v2, e.v3>>[o[1]], <<e.v1, e.v2, e.v3>>[o[2]],
                 <<e.v1, e.v2, e.v3>>[o[3]], e.useGouraud)

(***************************************************************************)
(* C26: the result of drawTriangle does not depend on the order in which   *)
(* the three vertices are given: all six permutations leave identical      *)
(* frame and depth buffers, whether the middle vertex is left or right of  *)
(* the long edge and for triangles with two vertices of equal y.           *)
(***************************************************************************)
C26_OrderIndependent ==
    [][DrawsTriangle => \A o \in Orders : BuffersAfter = Reordered(Last', o)]_vars

(***************************************************************************)
(* The pixels inside a triangle with vertices on integer coordinates.      *)
(***************************************************************************)
\* twice the signed area of (a, b, c), points given as <<x, y>>
Cross(a, b, c) ==
    (b[1] - a[1]) * (c[2] - a[2]) - (b[2] - a[2]) * (c[1] - a[1])

\* the integer coordinates of a vertex that lies on them
At(v) == <<Trunc(v.position.x), Trunc(v.position.y)>>

NonDegenerate(e) == Cross(At(e.v1), At(e.v2), At(e.v3)) # 0

\* p is strictly inside the triangle of call e: on the inner side of each
\* edge and on none of them
StrictlyInside(p, e) ==
    LET a == At(e.v1)
        b == At(e.v2)
        c == At(e.v3)
        s == IF Cross(a, b, c) > 0 THEN 1 ELSE -1
    IN  /\ s * Cross(a, b, p) > 0
        /\ s * Cross(b, c, p) > 0
        /\ s * Cross(c, a, p) > 0

VertexDepthsOf(e) == {e.v1.position.z, e.v2.position.z, e.v3.position.z}

(***************************************************************************)
(* C27: drawTriangle covers the whole triangle: on a cleared buffer every  *)
(* in-bounds integer pixel strictly inside a non-degenerate triangle of    *)
(* depth < 1.0 is written, on every scanline including the one at the      *)
(* middle vertex, whichever side of the long edge the middle vertex is on. *)
(***************************************************************************)
C27_CoversInside ==
    [][(DrawsTriangle /\ NonDegenerate(Last')
          /\ \A z \in VertexDepthsOf(Last') : FLess(z, FarDepth)) =>
         \A p \in Pixels :
             StrictlyInside(p, Last') =>
                 /\ p \in Covered(CallsOf(Last'))
                 /\ FLess(DepthAt(BuffersAfter, p[1], p[2]), FarDepth)]_vars

(***************************************************************************)
(* The calls drawTriangle makes to its two fill routines.                  *)
(***************************************************************************)
HelperCall(routine, v1, v2, v3) ==
    [routine |-> routine, v1 |-> v1, v2 |-> v2, v3 |-> v3]

\* the calls of drawTriangle after its sort, in order
HelperCalls(top, mid, bot, splitVertex) ==
    IF FEq(top.position.y, bot.position.y) THEN <<>>
    ELSE IF FEq(mid.position.y, bot.position.y)
         THEN <<HelperCall("fillFlatBottomTriangle", top, mid, bot)>>
    ELSE IF FEq(top.position.y, mid.position.y)
         THEN <<HelperCall("fillFlatTopTriangle", top, mid, bot)>>
    ELSE <<HelperCall("fillFlatBottomTriangle", top, mid, splitVertex),
           HelperCall("fillFlatTopTriangle", mid, splitVertex, bot)>>

HelpersOfSorted(verts) ==
    HelperCalls(verts[1], verts[2], verts[3], SplitVertex(verts[1], verts[2], verts[3]))

\* the calls to the fill routines that call e of drawTriangle makes
HelpersOf(e) == HelpersOfSorted(SortByY(e.v1, e.v2, e.v3))

\* the setPixelWithDepth calls of helper call h
FragmentsOf(h) ==
    IF h.routine = "fillFlatBottomTriangle"
    THEN fillFlatBottomTriangle(h.v1, h.v2, h.v3)
    ELSE fillFlatTopTriangle(h.v1, h.v2, h.v3)

\* the weights the fill routine of h computes for pixel (x, y)
WeightsAt(x, y, h) ==
    computeBarycentric(F(x), F(y), h.v1.position, h.v2.position, h.v3.position)

InUnit(w) == ~FLess(w, F(0)) /\ ~FGreater(w, F(1))

WeightsInUnit(bary) == InUnit(bary.x) /\ InUnit(bary.y) /\ InUnit(bary.z)

\* byte c is between the smallest and the largest of p, q, r
Within(c, p, q, r) ==
    /\ \E m \in {p, q, r} : m <= c
    /\ \E m \in {p, q, r} : c <= m

ChannelsWithin(color, h) ==
    /\ Within(color.r, h.v1.color.r, h.v2.color.r, h.v3.color.r)
    /\ Within(color.g, h.v1.color.g, h.v2.color.g, h.v3.color.g)
    /\ Within(color.b, h.v1.color.b, h.v2.color.b, h.v3.color.b)

InsideFragments(calls, h) ==
    \A i \in 1 .. Len(calls) :
        /\ WeightsInUnit(WeightsAt(calls[i].x, calls[i].y, h))
        /\ ChannelsWithin(calls[i].color, h)

InsideHelpers(helpers) ==
    \A i \in 1 .. Len(helpers) : InsideFragments(FragmentsOf(helpers[i]), helpers[i])

(***************************************************************************)
(* C28: drawTriangle writes no pixel outside the triangle: every pixel it  *)
(* offers to the depth test has all three barycentric weights in [0,1]     *)
(* with respect to the triangle being filled, so each colour channel       *)
(* written lies between the smallest and the largest of the three vertex   *)
(* channels and is never negative or wrapped.                              *)
(***************************************************************************)
C28_WeightsInUnit ==
    [][DrawsTriangle => InsideHelpers(HelpersOf(Last'))]_vars

\* the calls to the fill routines make the setPixelWithDepth calls of drawTriangle
HelpersFill(helpers) ==
    IF Len(helpers) = 0 THEN <<>>
    ELSE IF Len(helpers) = 1 THEN FragmentsOf(helpers[1])
    ELSE FragmentsOf(helpers[1]) \o FragmentsOf(helpers[2])

HelpersAreCalls ==
    [][DrawsTriangle => CallsOf(Last') = HelpersFill(HelpersOf(Last'))]_vars

(***************************************************************************)
(* The drawing routines that do not use the depth buffer.                  *)
(***************************************************************************)
Undepthed == {"setPixel", "draw_line", "draw_circle", "drawWireframeTriangle"}

\* the buffers after call e of one of these routines on buffers B
Applied(B, e) ==
    CASE e.op = "setPixel" -> setPixel(B, e.x, e.y, e.color)
      [] e.op = "draw_line" -> draw_line(B, e.x1, e.y1, e.x2, e.y2, e.color)
      [] e.op = "draw_circle" -> draw_circle(B, e.xc, e.yc, e.r, e.color)
      [] e.op = "drawWireframeTriangle" ->
            drawWireframeTriangle(B, e.v1, e.v2, e.v3, e.color)

\* buffers B with every depth cell at 0, closer than every write
AllNearest(B) == [B EXCEPT !.db = [i \in DOMAIN B.db |-> F(0)]]

(***************************************************************************)
(* C29: setPixel, draw_line, draw_circle and drawWireframeTriangle never   *)
(* read or change the depth buffer: the depth buffer is the same after the *)
(* call, the frame buffer is what the call gives on any other depth        *)
(* buffer, and every in-bounds pixel the call writes holds the call's      *)
(* colour whatever depth is stored there.                                  *)
(***************************************************************************)
C29_DepthUntouched ==
    [][(IsCall /\ Last'.op \in Undepthed) =>
         /\ depthBuffer' = depthBuffer
         /\ frameBuffer' = Applied(AllNearest(Buffers), Last').fb
         /\ \A p \in WritesOf(Last') \cap Pixels :
                PixelAt(BuffersAfter, p[1], p[2]) = RGB(Last'.color)]_vars

\* setPixel on a pixel that holds another colour at depth 0.2: the colour
\* is replaced and the depth stays
C29_Witness ==
    /\ Len(hist) = 2
    /\ hist[1].op = "setPixelWithDepth" /\ hist[2].op = "setPixel"
    /\ <<hist[1].x, hist[1].y>> = <<hist[2].x, hist[2].y>>
    /\ hist[1].depth = Near /\ hist[1].color # hist[2].color
    /\ DepthAt(Buffers, hist[2].x, hist[2].y) = Near
    /\ PixelAt(Buffers, hist[2].x, hist[2].y) = RGB(hist[2].color)

(***************************************************************************)
(* One drawTriangle call on buffers as constructed or just cleared, with   *)
(* vertices whose y are integers or the floats next to them: triangles     *)
(* with a middle vertex one float above the top or below the bottom.       *)
(***************************************************************************)
\* the float after -1 and the float after 3
AfterMinusOne == FAdd(F(-1), FDiv(F(1), F(2 ^ 24)))
AfterThree == FAdd(F(3), FDiv(F(1), F(2 ^ 22)))

ThinVertices ==
    { Vertex(F(0), F(-1), Near, Red), Vertex(F(2), AfterMinusOne, Near, Green),
      Vertex(F(2), F(1), Near, Green), Vertex(F(0), F(1), Far, Red),
      Vertex(F(2), F(3), Far, Red), Vertex(F(0), AfterThree, Near, Green) }

NextThin ==
    \/ \E c \in ClearColors : ShadedClear(c)
    \/ \E v1 \in ThinVertices, v2 \in ThinVertices, v3 \in ThinVertices,
          useGouraud \in BOOLEAN : ShadedDraw(v1, v2, v3, useGouraud)

SpecThin == Init /\ [][NextThin]_vars

\* the precondition of the fill routine called by h: the two divisors of
\* its inverse slopes are not zero
Precondition(h) ==
    IF h.routine = "fillFlatBottomTriangle"
    THEN /\ ~FEq(h.v2.position.y, h.v1.position.y)
         /\ ~FEq(h.v3.position.y, h.v1.position.y)
         /\ ~IsZero(FSub(h.v2.position.y, h.v1.position.y))
         /\ ~IsZero(FSub(h.v3.position.y, h.v1.position.y))
    ELSE /\ ~FEq(h.v3.position.y, h.v1.position.y)
         /\ ~FEq(h.v3.position.y, h.v2.position.y)
         /\ ~IsZero(FSub(h.v3.position.y, h.v1.position.y))
         /\ ~IsZero(FSub(h.v3.position.y, h.v2.position.y))

Preconditions(helpers) == \A i \in 1 .. Len(helpers) : Precondition(helpers[i])

(***************************************************************************)
(* C30: every call drawTriangle makes to fillFlatBottomTriangle or         *)
(* fillFlatTopTriangle satisfies the routine's precondition, for every     *)
(* input triangle: flat-bottom v2.y and v3.y differ from v1.y, flat-top    *)
(* v3.y differs from v1.y and v2.y, so no inverse slope divides by zero.   *)
(***************************************************************************)
C30_HelperPreconditions ==
    [][DrawsTriangle => Preconditions(HelpersOf(Last'))]_vars

====
